---- MODULE Spec2Model ----
(***************************************************************************)
(* Model of the SST39SF programmer firmware (Arduino sketch                *)
(* arduino/SST39SF-programmer): the sector programming state machine       *)
(* (program_sector.cpp), the flash bus driver (read_write.cpp), the        *)
(* command/error channel and the link handshake (communication_util.cpp)   *)
(* and the fatal halt (fail.cpp).                                          *)
(*                                                                         *)
(* Text is modelled as sequences of ASCII codes, the serial link as byte   *)
(* sequences.  The chip is the environment: it decodes the command         *)
(* sequences of the SST39SF datasheet that the driver issues.              *)
(***************************************************************************)
EXTENDS Integers, Sequences, FiniteSets, TLC

VARIABLES
    arduinoState,      \* globals.h: the protocol state register
    pc,                \* position of the single thread of control
    sectorIndex,       \* processSerialProgramSector: uint16_t sectorIndex
    sectorIndexBytes,  \* getAndValidateSectorIndex: bytes read so far
    sectorData,        \* processSerialProgramSector: byte sectorData[]
    i,                 \* loop counter of the handler in progress
    startAddress,      \* programSector: int32_t startAddress
    errorMessage,      \* fail: the message of the halt, <<>> before it
    leds,              \* the four status LED outputs
    hw,                \* bus pins, chip, build flag and the log of bus events
    tx,                \* bytes written to Serial by the last step
    rd,                \* bytes read from Serial by the last step
    waited,            \* delay() executed at the end of the last step, in us
    inp,               \* bytes read from Serial in the rounds still standing;
                       \* where functions are called directly, the calls made
    rx,                \* bytes buffered by the UART, not yet read
    hostNaks           \* the round the host rejected last at each confirm step,
                       \* where recorded

vars == <<arduinoState, pc, sectorIndex, sectorIndexBytes, sectorData, i,
          startAddress, errorMessage, leds, hw, tx, rd, waited, inp, rx,
          hostNaks>>

-----------------------------------------------------------------------------
(* Bounds of the model.                                                    *)

\* Scaled SST_SECTOR_SIZE (sst_constants.h:37 has 4096).
SectorSize == 2
\* Scaled SST_FLASH_SIZE (sst_constants.h:36 has 262144).
FlashSize == 8
\* Capacity of the UART receive buffer during the handshake.
MaxRx == 2
\* Characters appended to a message text before it is sent.
MaxAppend == 4

\* Bytes the host sends: two index values, ACK, NAK, 0x41, 0xBC.
HostBytes == {0, 1, 6, 21, 65, 188}
\* Values an uninitialised byte of the stack may hold.
StackBytes == {0, 165}
\* Values an uninitialised uint16_t of the stack may hold.
StackWords == {1, 65535}

-----------------------------------------------------------------------------
(* Program constants.                                                      *)

ACK == 6
NAK == 21
MAX_NAK_MESSAGE_LENGTH == 256
SECTOR_INDEX_LENGTH_BYTES == 2
ADDRESS_BUS_LENGTH == 18
DATA_BUS_LENGTH == 8
DEBUG == TRUE

\* The largest int32_t.
INT32_MAX == 2147483647

\* A value below 2^32 as an int32_t (two's complement) and as a uint32_t.
Int32(x) == IF x > INT32_MAX THEN x - INT32_MAX - INT32_MAX - 2 ELSE x

Uint32(x) == IF x < 0 THEN x + INT32_MAX + INT32_MAX + 2 ELSE x

SST_SECTOR_SIZE == SectorSize
SST_FLASH_SIZE == FlashSize
SST_NUMBER_SECTORS == SST_FLASH_SIZE \div SST_SECTOR_SIZE

WAITING_FOR_COMMAND == "WAITING_FOR_COMMAND"
BEGIN_PROGRAM_SECTOR == "BEGIN_PROGRAM_SECTOR"
PROGRAM_SECTOR_GOT_INDEX == "PROGRAM_SECTOR_GOT_INDEX"
PROGRAM_SECTOR_INDEX_CONFIRMED == "PROGRAM_SECTOR_INDEX_CONFIRMED"
PROGRAM_SECTOR_GOT_DATA == "PROGRAM_SECTOR_GOT_DATA"
BEGIN_ERASE_CHIP == "BEGIN_ERASE_CHIP"
DONE == "DONE"

ArduinoState ==
    {WAITING_FOR_COMMAND, BEGIN_PROGRAM_SECTOR, PROGRAM_SECTOR_GOT_INDEX,
     PROGRAM_SECTOR_INDEX_CONFIRMED, PROGRAM_SECTOR_GOT_DATA,
     BEGIN_ERASE_CHIP, DONE}

SectorStates ==
    {BEGIN_PROGRAM_SECTOR, PROGRAM_SECTOR_GOT_INDEX,
     PROGRAM_SECTOR_INDEX_CONFIRMED, PROGRAM_SECTOR_GOT_DATA}

\* The states in which the firmware waits for the host's answer to an echo.
ConfirmStates == {PROGRAM_SECTOR_GOT_INDEX, PROGRAM_SECTOR_GOT_DATA}

\* No round has been answered with NAK.
NoRejects == [s \in ConfirmStates |-> <<>>]

LEDStatus == {"WAITING_FOR_COMMUNICATION", "WORKING", "FINISHED", "ERROR"}

LedPins ==
    {"WAITING_FOR_COMMUNICATION_LED", "WORKING_LED", "FINISHED_LED",
     "ERROR_LED"}

-----------------------------------------------------------------------------
(* Text.                                                                   *)

\* "While programming sector, got sector index "
MsgIndexTooLargeHead ==
    <<87, 104, 105, 108, 101, 32, 112, 114, 111, 103, 114, 97, 109, 109, 105,
      110, 103, 32, 115, 101, 99, 116, 111, 114, 44, 32, 103, 111, 116, 32,
      115, 101, 99, 116, 111, 114, 32, 105, 110, 100, 101, 120, 32>>

\* ", which is too large."
MsgIndexTooLargeTail ==
    <<44, 32, 119, 104, 105, 99, 104, 32, 105, 115, 32, 116, 111, 111, 32,
      108, 97, 114, 103, 101, 46>>

\* "While programming sector and waiting for ACK/NAK on echoed sector index, got byte 0x"
MsgConfirmIndexHead ==
    <<87, 104, 105, 108, 101, 32, 112, 114, 111, 103, 114, 97, 109, 109, 105,
      110, 103, 32, 115, 101, 99, 116, 111, 114, 32, 97, 110, 100, 32, 119,
      97, 105, 116, 105, 110, 103, 32, 102, 111, 114, 32, 65, 67, 75, 47, 78,
      65, 75, 32, 111, 110, 32, 101, 99, 104, 111, 101, 100, 32, 115, 101, 99,
      116, 111, 114, 32, 105, 110, 100, 101, 120, 44, 32, 103, 111, 116, 32,
      98, 121, 116, 101, 32, 48, 120>>

\* "While programming sector and waiting for ACK/NAK on echoed sector data, got byte 0x"
MsgConfirmDataHead ==
    <<87, 104, 105, 108, 101, 32, 112, 114, 111, 103, 114, 97, 109, 109, 105,
      110, 103, 32, 115, 101, 99, 116, 111, 114, 32, 97, 110, 100, 32, 119,
      97, 105, 116, 105, 110, 103, 32, 102, 111, 114, 32, 65, 67, 75, 47, 78,
      65, 75, 32, 111, 110, 32, 101, 99, 104, 111, 101, 100, 32, 115, 101, 99,
      116, 111, 114, 32, 100, 97, 116, 97, 44, 32, 103, 111, 116, 32, 98, 121,
      116, 101, 32, 48, 120>>

\* " instead."
MsgInstead ==
    <<32, 105, 110, 115, 116, 101, 97, 100, 46>>

\* "Programming sector failed: byte read back is not the same as what should have been programmed."
MsgVerifyFailed ==
    <<80, 114, 111, 103, 114, 97, 109, 109, 105, 110, 103, 32, 115, 101, 99,
      116, 111, 114, 32, 102, 97, 105, 108, 101, 100, 58, 32, 98, 121, 116,
      101, 32, 114, 101, 97, 100, 32, 98, 97, 99, 107, 32, 105, 115, 32, 110,
      111, 116, 32, 116, 104, 101, 32, 115, 97, 109, 101, 32, 97, 115, 32,
      119, 104, 97, 116, 32, 115, 104, 111, 117, 108, 100, 32, 104, 97, 118,
      101, 32, 98, 101, 101, 110, 32, 112, 114, 111, 103, 114, 97, 109, 109,
      101, 100, 46>>

\* "DEBUG assertion failed during "
MsgDebugHead ==
    <<68, 69, 66, 85, 71, 32, 97, 115, 115, 101, 114, 116, 105, 111, 110, 32,
      102, 97, 105, 108, 101, 100, 32, 100, 117, 114, 105, 110, 103, 32>>

\* ": data pins are not in output mode."
MsgPinsNotOut ==
    <<58, 32, 100, 97, 116, 97, 32, 112, 105, 110, 115, 32, 97, 114, 101, 32,
      110, 111, 116, 32, 105, 110, 32, 111, 117, 116, 112, 117, 116, 32, 109,
      111, 100, 101, 46>>

\* ": data pins are not in input mode."
MsgPinsNotIn ==
    <<58, 32, 100, 97, 116, 97, 32, 112, 105, 110, 115, 32, 97, 114, 101, 32,
      110, 111, 116, 32, 105, 110, 32, 105, 110, 112, 117, 116, 32, 109, 111,
      100, 101, 46>>

\* "DEBUG assertion failed during eraseSector: index is out of bounds (too large)."
MsgEraseSectorIndexOob ==
    <<68, 69, 66, 85, 71, 32, 97, 115, 115, 101, 114, 116, 105, 111, 110, 32,
      102, 97, 105, 108, 101, 100, 32, 100, 117, 114, 105, 110, 103, 32, 101,
      114, 97, 115, 101, 83, 101, 99, 116, 111, 114, 58, 32, 105, 110, 100,
      101, 120, 32, 105, 115, 32, 111, 117, 116, 32, 111, 102, 32, 98, 111,
      117, 110, 100, 115, 32, 40, 116, 111, 111, 32, 108, 97, 114, 103, 101,
      41, 46>>

\* "DEBUG assertion failed during eraseSectorStartingAt: address is out of bounds (too large)."
MsgEraseAtOob ==
    <<68, 69, 66, 85, 71, 32, 97, 115, 115, 101, 114, 116, 105, 111, 110, 32,
      102, 97, 105, 108, 101, 100, 32, 100, 117, 114, 105, 110, 103, 32, 101,
      114, 97, 115, 101, 83, 101, 99, 116, 111, 114, 83, 116, 97, 114, 116,
      105, 110, 103, 65, 116, 58, 32, 97, 100, 100, 114, 101, 115, 115, 32,
      105, 115, 32, 111, 117, 116, 32, 111, 102, 32, 98, 111, 117, 110, 100,
      115, 32, 40, 116, 111, 111, 32, 108, 97, 114, 103, 101, 41, 46>>

\* "DEBUG assertion failed during eraseSectorStartingAt: address is not the starting address of a sector."
MsgEraseAtUnaligned ==
    <<68, 69, 66, 85, 71, 32, 97, 115, 115, 101, 114, 116, 105, 111, 110, 32,
      102, 97, 105, 108, 101, 100, 32, 100, 117, 114, 105, 110, 103, 32, 101,
      114, 97, 115, 101, 83, 101, 99, 116, 111, 114, 83, 116, 97, 114, 116,
      105, 110, 103, 65, 116, 58, 32, 97, 100, 100, 114, 101, 115, 115, 32,
      105, 115, 32, 110, 111, 116, 32, 116, 104, 101, 32, 115, 116, 97, 114,
      116, 105, 110, 103, 32, 97, 100, 100, 114, 101, 115, 115, 32, 111, 102,
      32, 97, 32, 115, 101, 99, 116, 111, 114, 46>>

\* "eraseSector"
NameEraseSector ==
    <<101, 114, 97, 115, 101, 83, 101, 99, 116, 111, 114>>

\* "eraseSectorStartingAt"
NameEraseSectorStartingAt ==
    <<101, 114, 97, 115, 101, 83, 101, 99, 116, 111, 114, 83, 116, 97, 114,
      116, 105, 110, 103, 65, 116>>

\* "sendByte"
NameSendByte ==
    <<115, 101, 110, 100, 66, 121, 116, 101>>

\* "setDataBus"
NameSetDataBus ==
    <<115, 101, 116, 68, 97, 116, 97, 66, 117, 115>>

\* "writeByte"
NameWriteByte ==
    <<119, 114, 105, 116, 101, 66, 121, 116, 101>>

\* "readByte"
NameReadByte ==
    <<114, 101, 97, 100, 66, 121, 116, 101>>

\* "readDataBus"
NameReadDataBus ==
    <<114, 101, 97, 100, 68, 97, 116, 97, 66, 117, 115>>

\* "eraseChip"
NameEraseChip ==
    <<101, 114, 97, 115, 101, 67, 104, 105, 112>>

\* "\nWhile waiting for connection, got byte 0x"
MsgConnectHead ==
    <<10, 87, 104, 105, 108, 101, 32, 119, 97, 105, 116, 105, 110, 103, 32,
      102, 111, 114, 32, 99, 111, 110, 110, 101, 99, 116, 105, 111, 110, 44,
      32, 103, 111, 116, 32, 98, 121, 116, 101, 32, 48, 120>>

\* " instead of 0x06 (ACK).\n"
MsgConnectTail ==
    <<32, 105, 110, 115, 116, 101, 97, 100, 32, 111, 102, 32, 48, 120, 48, 54,
      32, 40, 65, 67, 75, 41, 46, 10>>

\* "WAITING"
WaitingToken ==
    <<87, 65, 73, 84, 73, 78, 71>>

\* "Error too long. Truncated:\n"
errorMessagePrefix ==
    <<69, 114, 114, 111, 114, 32, 116, 111, 111, 32, 108, 111, 110, 103, 46,
      32, 84, 114, 117, 110, 99, 97, 116, 101, 100, 58, 10>>

-----------------------------------------------------------------------------
(* Utilities of communication_util.cpp.                                    *)

\* Faulty variant: the digits above 9 are lowercase.
byteToHexLow_Lowercase(b) ==
    LET lowBits == b % 16
    IN  IF lowBits < 10 THEN 48 + lowBits ELSE 97 + (lowBits - 10)

\* byteToHexLow: the hex character of the low 4 bits, '0'..'9', 'A'..'F'.
byteToHexLow(b) ==
    LET lowBits == b % 16
    IN  IF lowBits < 10 THEN 48 + lowBits ELSE 65 + (lowBits - 10)

\* Faulty variant: the high character is taken from the low 4 bits.
byteToHexHigh_NoShift(b) ==
    LET highBits == b % 16
    IN  byteToHexLow(highBits)

\* byteToHexHigh: the hex character of bits 4..7.
byteToHexHigh(b) ==
    LET highBits == (b \div 16) % 16
    IN  byteToHexLow(highBits)

\* byteToHex: high character, then low character.
byteToHex(b) == <<byteToHexHigh(b), byteToHexLow(b)>>

\* String(unsigned): decimal digits, most significant first, no padding.
RECURSIVE DecimalString(_)
DecimalString(n) ==
    IF n < 10 THEN <<48 + n>>
    ELSE Append(DecimalString(n \div 10), 48 + (n % 10))

\* Serial.write(buffer, n): the first n bytes of the buffer.
FirstBytes(s, n) == SubSeq(s, 1, n)

\* sendACK: the bytes it writes.
sendACK == <<ACK>>

\* Faulty variant: a text that just fits is truncated too.
sendNAKMessage_OffByOne(message) ==
    LET errorMessageLength == Len(message) + 1
        errorMessagePrefixLength == Len(errorMessagePrefix) + 1
    IN  IF errorMessageLength >= MAX_NAK_MESSAGE_LENGTH
        THEN <<NAK>>
             \o FirstBytes(errorMessagePrefix, errorMessagePrefixLength - 1)
             \o FirstBytes(message, MAX_NAK_MESSAGE_LENGTH
                                    - (errorMessagePrefixLength - 1) - 1)
             \o <<0>>
        ELSE <<NAK>> \o message \o <<0>>

\* Faulty variant: no byte is reserved for the terminator.
sendNAKMessage_NoReserve(message) ==
    LET errorMessageLength == Len(message) + 1
        errorMessagePrefixLength == Len(errorMessagePrefix) + 1
    IN  IF errorMessageLength > MAX_NAK_MESSAGE_LENGTH
        THEN <<NAK>>
             \o FirstBytes(errorMessagePrefix, errorMessagePrefixLength - 1)
             \o FirstBytes(message, MAX_NAK_MESSAGE_LENGTH
                                    - (errorMessagePrefixLength - 1))
             \o <<0>>
        ELSE <<NAK>> \o message \o <<0>>

\* sendNAKMessage: the bytes it writes for a message text.
sendNAKMessage(message) ==
    LET errorMessageLength == Len(message) + 1
        errorMessagePrefixLength == Len(errorMessagePrefix) + 1
    IN  IF errorMessageLength > MAX_NAK_MESSAGE_LENGTH
        THEN <<NAK>>
             \o FirstBytes(errorMessagePrefix, errorMessagePrefixLength - 1)
             \o FirstBytes(message, MAX_NAK_MESSAGE_LENGTH
                                    - (errorMessagePrefixLength - 1) - 1)
             \o <<0>>
        ELSE <<NAK>> \o message \o <<0>>

\* The LED output a status lights.
LedOf(status) ==
    CASE status = "WAITING_FOR_COMMUNICATION" -> "WAITING_FOR_COMMUNICATION_LED"
      [] status = "WORKING" -> "WORKING_LED"
      [] status = "FINISHED" -> "FINISHED_LED"
      [] status = "ERROR" -> "ERROR_LED"

\* Faulty variant: the cases FINISHED and ERROR of the switch have no
\* break, so FINISHED falls through to ERROR.
setLEDStatus_FallThrough(status) ==
    [l \in LedPins |->
        IF l = LedOf(status) \/ (status = "FINISHED" /\ l = "ERROR_LED")
        THEN 1 ELSE 0]

\* setLEDStatus: all four outputs LOW, then the one of the status HIGH.
setLEDStatus(status) == [l \in LedPins |-> IF l = LedOf(status) THEN 1 ELSE 0]

\* The messages the sector state machine sends.
IndexTooLargeMessage(index, bytes) ==
    MsgIndexTooLargeHead \o DecimalString(index) \o MsgIndexTooLargeTail
    \o byteToHex(bytes[1]) \o byteToHex(bytes[2])

ConfirmIndexMessage(b) == MsgConfirmIndexHead \o byteToHex(b) \o MsgInstead

ConfirmDataMessage(b) == MsgConfirmDataHead \o byteToHex(b) \o MsgInstead

PinsNotOutMessage(caller) == MsgDebugHead \o caller \o MsgPinsNotOut

PinsNotInMessage(caller) == MsgDebugHead \o caller \o MsgPinsNotIn

-----------------------------------------------------------------------------
(* The chip (environment): command decoding of the SST39SF.                *)

RECURSIVE ByteAnd(_, _)
\* Bitwise AND of two bytes: programming can only clear bits.
ByteAnd(a, b) ==
    IF a = 0 \/ b = 0 THEN 0
    ELSE (a % 2) * (b % 2) + 2 * ByteAnd(a \div 2, b \div 2)

UnlockProgram == << <<21845, 170>>, <<10922, 85>>, <<21845, 160>> >>

UnlockErase ==
    << <<21845, 170>>, <<10922, 85>>, <<21845, 128>>,
       <<21845, 170>>, <<10922, 85>> >>

IsPrefix(s, t) == Len(s) <= Len(t) /\ SubSeq(t, 1, Len(s)) = s

\* One write cycle latched by the chip: h.cmd holds the cycles of the
\* command in progress.
ChipCycle(h, address, data) ==
    LET seq == Append(h.cmd, <<address, data>>)
        sector == address \div SST_SECTOR_SIZE
    IN  IF h.cmd = UnlockProgram
        THEN [h EXCEPT !.cmd = <<>>,
                       !.flash = [a \in DOMAIN h.flash |->
                                     IF a = address
                                     THEN ByteAnd(h.flash[a], data)
                                     ELSE h.flash[a]]]
        ELSE IF h.cmd = UnlockErase /\ data = 48
        THEN [h EXCEPT !.cmd = <<>>,
                       !.flash = [a \in DOMAIN h.flash |->
                                     IF a \div SST_SECTOR_SIZE = sector
                                     THEN 255 ELSE h.flash[a]]]
        ELSE IF h.cmd = UnlockErase /\ address = 21845 /\ data = 16
        THEN [h EXCEPT !.cmd = <<>>,
                       !.flash = [a \in DOMAIN h.flash |-> 255]]
        ELSE IF IsPrefix(seq, UnlockProgram) \/ IsPrefix(seq, UnlockErase)
        THEN [h EXCEPT !.cmd = seq]
        ELSE [h EXCEPT !.cmd = <<>>]

\* What the chip drives on the data bus for an address when it obeys.
ChipData(h, address) ==
    IF address \in DOMAIN h.flash THEN h.flash[address] ELSE 255

\* What the data bus may carry when sampled: the chip's byte, or another
\* one when the cell did not take the programmed value.
Samples(h, address) == {ChipData(h, address), 255 - ChipData(h, address)}

-----------------------------------------------------------------------------
(* The flash bus driver, read_write.cpp.  Each operation maps the          *)
(* hardware record h to the hardware record after it; h.halt holds the     *)
(* message of fail() once a DEBUG assertion has failed, and every later    *)
(* operation is then skipped (fail does not return).                       *)

Event(op, address, data) == [op |-> op, addr |-> address, data |-> data]

\* The log of bus events: "we" and "oe" (data = level driven on the control
\* line), "addr" (address bus driven), "data" (data bus driven), "mode"
\* (data = 1 output, 0 input), "delay" (data = microseconds), "send" (the
\* write cycle the chip latched), "read" (the byte sampled).
Log(h, op, address, data) ==
    [h EXCEPT !.log = Append(h.log, Event(op, address, data))]

Halted(h) == h.halt # <<>>

\* digitalWrite on WRITE_ENABLE ("we") or OUTPUT_ENABLE ("oe").
digitalWrite(h, pin, level) == Log([h EXCEPT ![pin] = level], pin, 0, level)

\* checkDataPinsOut(caller)
checkDataPinsOut(h, caller) ==
    IF ~Halted(h) /\ h.debug /\ h.mode # "OUTPUT"
    THEN [h EXCEPT !.halt = PinsNotOutMessage(caller)]
    ELSE h

\* checkDataPinsIn(caller)
checkDataPinsIn(h, caller) ==
    IF ~Halted(h) /\ h.debug /\ h.mode # "INPUT"
    THEN [h EXCEPT !.halt = PinsNotInMessage(caller)]
    ELSE h

\* setDataPinsIn
setDataPinsIn(h) ==
    IF Halted(h) THEN h ELSE Log([h EXCEPT !.mode = "INPUT"], "mode", 0, 0)

\* setDataPinsOut
setDataPinsOut(h) ==
    IF Halted(h) THEN h ELSE Log([h EXCEPT !.mode = "OUTPUT"], "mode", 0, 1)

\* setAddressBus: the low ADDRESS_BUS_LENGTH bits of the address.
setAddressBus(h, address) ==
    LET lines == address % (2 ^ ADDRESS_BUS_LENGTH)
    IN  Log([h EXCEPT !.addr = lines], "addr", lines, 0)

\* setDataBus, with its DEBUG check.
setDataBus(h, data) ==
    LET c == checkDataPinsOut(h, NameSetDataBus)
    IN  IF Halted(c) THEN c
        ELSE Log([c EXCEPT !.data = data % 256], "data", 0, data % 256)

\* delayMicroseconds / delay on the bus, in microseconds.
busDelay(h, us) == IF Halted(h) THEN h ELSE Log(h, "delay", 0, us)

\* sendByte: one write cycle.  The chip latches the address and data lines
\* while write-enable is low.
sendByte(h, address, data) ==
    LET c == checkDataPinsOut(h, NameSendByte)
        up == busDelay(digitalWrite(digitalWrite(c, "oe", 1), "we", 1), 1)
        driven == setDataBus(setAddressBus(up, address), data)
        low == busDelay(digitalWrite(driven, "we", 0), 1)
        latched == Log(ChipCycle(low, low.addr, low.data),
                       "send", low.addr, low.data)
    IN  IF Halted(h) THEN h
        ELSE IF Halted(c) THEN c
        ELSE IF Halted(driven) THEN driven
        ELSE digitalWrite(latched, "we", 1)

\* Faulty variant: writeByte returns without waiting for the chip.
writeByte_NoWait(h, address, data) ==
    LET c == checkDataPinsOut(h, NameWriteByte)
        s1 == sendByte(c, 21845, 170)
        s2 == sendByte(s1, 10922, 85)
        s3 == sendByte(s2, 21845, 160)
        s4 == sendByte(s3, address, data)
    IN  s4

\* writeByte: the byte-program command sequence.
writeByte(h, address, data) ==
    LET c == checkDataPinsOut(h, NameWriteByte)
        s1 == sendByte(c, 21845, 170)
        s2 == sendByte(s1, 10922, 85)
        s3 == sendByte(s2, 21845, 160)
        s4 == sendByte(s3, address, data)
    IN  busDelay(s4, 25)

\* Faulty variant: the wait for the erase is 30 us, not 30 ms.
eraseSectorStartingAt_MicrosecondWait(h, address) ==
    LET c == checkDataPinsOut(h, NameEraseSectorStartingAt)
        sectorNumber == address \div SST_SECTOR_SIZE
        startingAddressOfSector == sectorNumber * SST_SECTOR_SIZE
        checked ==
            IF Halted(c) \/ ~c.debug THEN c
            ELSE IF address >= SST_FLASH_SIZE
            THEN [c EXCEPT !.halt = MsgEraseAtOob]
            ELSE IF address # startingAddressOfSector
            THEN [c EXCEPT !.halt = MsgEraseAtUnaligned]
            ELSE c
        s1 == sendByte(checked, 21845, 170)
        s2 == sendByte(s1, 10922, 85)
        s3 == sendByte(s2, 21845, 128)
        s4 == sendByte(s3, 21845, 170)
        s5 == sendByte(s4, 10922, 85)
        s6 == sendByte(s5, address, 48)
    IN  busDelay(s6, 30)

\* Faulty variant: the third cycle carries the byte-program code.
eraseSectorStartingAt_ProgramCode(h, address) ==
    LET c == checkDataPinsOut(h, NameEraseSectorStartingAt)
        sectorNumber == address \div SST_SECTOR_SIZE
        startingAddressOfSector == sectorNumber * SST_SECTOR_SIZE
        checked ==
            IF Halted(c) \/ ~c.debug THEN c
            ELSE IF address >= SST_FLASH_SIZE
            THEN [c EXCEPT !.halt = MsgEraseAtOob]
            ELSE IF address # startingAddressOfSector
            THEN [c EXCEPT !.halt = MsgEraseAtUnaligned]
            ELSE c
        s1 == sendByte(checked, 21845, 170)
        s2 == sendByte(s1, 10922, 85)
        s3 == sendByte(s2, 21845, 160)
        s4 == sendByte(s3, 21845, 170)
        s5 == sendByte(s4, 10922, 85)
        s6 == sendByte(s5, address, 48)
    IN  busDelay(s6, 30000)

\* Faulty variant: the address is checked after the unlock cycles.
eraseSectorStartingAt_CheckAfterUnlock(h, address) ==
    LET c == checkDataPinsOut(h, NameEraseSectorStartingAt)
        sectorNumber == address \div SST_SECTOR_SIZE
        startingAddressOfSector == sectorNumber * SST_SECTOR_SIZE
        s1 == sendByte(c, 21845, 170)
        s2 == sendByte(s1, 10922, 85)
        checked ==
            IF Halted(s2) \/ ~s2.debug THEN s2
            ELSE IF address >= SST_FLASH_SIZE
            THEN [s2 EXCEPT !.halt = MsgEraseAtOob]
            ELSE IF address # startingAddressOfSector
            THEN [s2 EXCEPT !.halt = MsgEraseAtUnaligned]
            ELSE s2
        s3 == sendByte(checked, 21845, 128)
        s4 == sendByte(s3, 21845, 170)
        s5 == sendByte(s4, 10922, 85)
        s6 == sendByte(s5, address, 48)
    IN  busDelay(s6, 30000)

\* eraseSectorStartingAt: the sector-erase command sequence.
eraseSectorStartingAt(h, address) ==
    LET c == checkDataPinsOut(h, NameEraseSectorStartingAt)
        sectorNumber == address \div SST_SECTOR_SIZE
        startingAddressOfSector == sectorNumber * SST_SECTOR_SIZE
        checked ==
            IF Halted(c) \/ ~c.debug THEN c
            ELSE IF address >= SST_FLASH_SIZE
            THEN [c EXCEPT !.halt = MsgEraseAtOob]
            ELSE IF address # startingAddressOfSector
            THEN [c EXCEPT !.halt = MsgEraseAtUnaligned]
            ELSE c
        s1 == sendByte(checked, 21845, 170)
        s2 == sendByte(s1, 10922, 85)
        s3 == sendByte(s2, 21845, 128)
        s4 == sendByte(s3, 21845, 170)
        s5 == sendByte(s4, 10922, 85)
        s6 == sendByte(s5, address, 48)
    IN  busDelay(s6, 30000)

\* eraseSector: uint32_t sectorIndex32 = sectorIndex, and the product
\* sectorIndex32 * SST_SECTOR_SIZE in 32-bit unsigned arithmetic.
EraseAddressOf(index, sectorSize) == Uint32(Uint32(index) * sectorSize)

\* eraseSector: bounds check in DEBUG, then erase at index * sector size.
eraseSector(h, index) ==
    LET c == checkDataPinsOut(h, NameEraseSector)
        checked ==
            IF Halted(c) \/ ~c.debug THEN c
            ELSE IF index >= SST_NUMBER_SECTORS
            THEN [c EXCEPT !.halt = MsgEraseSectorIndexOob]
            ELSE c
    IN  eraseSectorStartingAt(checked, EraseAddressOf(index, SST_SECTOR_SIZE))

\* Faulty variant: the sixth cycle carries the sector-erase code.
eraseChip_SectorCode(h) ==
    LET c == checkDataPinsOut(h, NameEraseChip)
        s1 == sendByte(c, 21845, 170)
        s2 == sendByte(s1, 10922, 85)
        s3 == sendByte(s2, 21845, 128)
        s4 == sendByte(s3, 21845, 170)
        s5 == sendByte(s4, 10922, 85)
        s6 == sendByte(s5, 21845, 48)
    IN  busDelay(s6, 105000)

\* eraseChip: the chip-erase command sequence.
eraseChip(h) ==
    LET c == checkDataPinsOut(h, NameEraseChip)
        s1 == sendByte(c, 21845, 170)
        s2 == sendByte(s1, 10922, 85)
        s3 == sendByte(s2, 21845, 128)
        s4 == sendByte(s3, 21845, 170)
        s5 == sendByte(s4, 10922, 85)
        s6 == sendByte(s5, 21845, 16)
    IN  busDelay(s6, 105000)

\* The levels of the data pins DQ0 .. DQ7 while the bus carries a byte.
DataPinLevels(b) ==
    [k \in 0 .. (DATA_BUS_LENGTH - 1) |-> (b \div (2 ^ k)) % 2]

\* The loop of readDataBus from pin k on: bitSet(input, k) for a high pin.
RECURSIVE bitsFrom(_, _)
bitsFrom(levels, k) ==
    IF k >= DATA_BUS_LENGTH THEN 0
    ELSE (IF levels[k] # 0 THEN 2 ^ k ELSE 0) + bitsFrom(levels, k + 1)

\* readDataBus: the byte assembled from the levels of the data pins.
readDataBus(levels) == bitsFrom(levels, 0)

\* Faulty variant: output-enable is left low when the byte is returned.
readByte_LeavesOutputEnabled(h, address, sample) ==
    LET c == checkDataPinsIn(h, NameReadByte)
        up == busDelay(digitalWrite(digitalWrite(c, "we", 1), "oe", 1), 1)
        low == busDelay(digitalWrite(setAddressBus(up, address), "oe", 0), 1)
        checked == checkDataPinsIn(low, NameReadDataBus)
        read == Log([checked EXCEPT
                        !.glitch = h.glitch \/ sample # ChipData(h, low.addr),
                        !.ret = readDataBus(DataPinLevels(sample))],
                    "read", low.addr, sample)
    IN  IF Halted(h) THEN h
        ELSE IF Halted(c) THEN c
        ELSE IF Halted(checked) THEN checked
        ELSE read

\* Faulty variant: the data bus is sampled as soon as output-enable is low.
readByte_NoSettle(h, address, sample) ==
    LET c == checkDataPinsIn(h, NameReadByte)
        up == busDelay(digitalWrite(digitalWrite(c, "we", 1), "oe", 1), 1)
        low == digitalWrite(setAddressBus(up, address), "oe", 0)
        checked == checkDataPinsIn(low, NameReadDataBus)
        read == Log([checked EXCEPT
                        !.glitch = h.glitch \/ sample # ChipData(h, low.addr),
                        !.ret = readDataBus(DataPinLevels(sample))],
                    "read", low.addr, sample)
    IN  IF Halted(h) THEN h
        ELSE IF Halted(c) THEN c
        ELSE IF Halted(checked) THEN checked
        ELSE digitalWrite(read, "oe", 1)

\* readByte: the sample is what the data bus carries while output-enable
\* is low; h.ret is the byte returned.
readByte(h, address, sample) ==
    LET c == checkDataPinsIn(h, NameReadByte)
        up == busDelay(digitalWrite(digitalWrite(c, "we", 1), "oe", 1), 1)
        low == busDelay(digitalWrite(setAddressBus(up, address), "oe", 0), 1)
        checked == checkDataPinsIn(low, NameReadDataBus)
        read == Log([checked EXCEPT
                        !.glitch = h.glitch \/ sample # ChipData(h, low.addr),
                        !.ret = readDataBus(DataPinLevels(sample))],
                    "read", low.addr, sample)
    IN  IF Halted(h) THEN h
        ELSE IF Halted(c) THEN c
        ELSE IF Halted(checked) THEN checked
        ELSE digitalWrite(read, "oe", 1)

-----------------------------------------------------------------------------
(* The sector programming state machine, program_sector.cpp.               *)

\* Faulty variant: the first byte received is taken as the high byte.
DecodeIndex_BigEndian(bytes) ==
    (((bytes[1] * 256) % 65536) + bytes[2]) % 65536

\* Faulty variant: the high byte of the index is dropped.
DecodeIndex_LowByteOnly(bytes) == bytes[1]

\* The little-endian index of two received bytes, as a uint16_t.
DecodeIndex(bytes) == (((bytes[2] * 256) % 65536) + bytes[1]) % 65536

\* Faulty variant: the product is formed in 16-bit int arithmetic, without
\* the cast.
StartAddressOf_NoCast(index, sectorSize) == (index * sectorSize) % 65536

\* programSector: ((int32_t)sectorIndex) * SST_SECTOR_SIZE, for a sector
\* size: the product in 32-bit signed arithmetic.
StartAddressOf(index, sectorSize) == Int32(Int32(index) * sectorSize)

\* Faulty variant: the byte of offset k goes to the address of offset k + 1.
ByteAddressOf_NextByte(start, offset) == Uint32(Int32(start + offset + 1))

\* programSector: startAddress + index, an int32_t sum converted to the
\* uint32_t parameter of writeByte and readByte.
ByteAddressOf(start, offset) == Uint32(Int32(start + offset))

\* Faulty variant: the index is used as the address, without the sector size.
StartAddress_Unscaled(index) == index

\* programSector: int32_t startAddress = ((int32_t)sectorIndex) * size.
StartAddress(index) == StartAddressOf(index, SST_SECTOR_SIZE)

\* A byte read from Serial, tagged with the state it was read in.
Received(b) == <<arduinoState, b>>

\* The entries of inp that stand after a NAK read in state s: the round the
\* NAK rejects is dropped.
StandingAfterNak(s) ==
    IF s = PROGRAM_SECTOR_GOT_DATA
    THEN SelectSeq(inp, LAMBDA e : e[1] # PROGRAM_SECTOR_INDEX_CONFIRMED)
    ELSE <<>>

\* fail(message), up to its loop: the status LED is set to ERROR.
EnterFail(message) ==
    /\ leds' = setLEDStatus("ERROR")
    /\ errorMessage' = message
    /\ pc' = "fail"
    /\ tx' = <<>>
    /\ waited' = 0

\* BEGIN_PROGRAM_SECTOR: one blockingSerialRead of getAndValidateSectorIndex;
\* the second one is followed by the rest of the function.
\* numberSectors is the value of SST_NUMBER_SECTORS in the build.
getAndValidateSectorIndexOf(b, numberSectors) ==
    /\ pc = "run"
    /\ rd' = <<b>>
    /\ arduinoState = BEGIN_PROGRAM_SECTOR
    /\ rx = <<>>
    /\ inp' = Append(inp, Received(b))
    /\ waited' = 0
    /\ LET bytes == Append(sectorIndexBytes, b)
           index == DecodeIndex(bytes)
       IN  IF Len(bytes) < SECTOR_INDEX_LENGTH_BYTES
           THEN /\ sectorIndexBytes' = bytes
                /\ tx' = <<>>
                /\ UNCHANGED <<arduinoState, sectorIndex>>
           ELSE /\ sectorIndexBytes' = <<>>
                /\ sectorIndex' = index
                /\ IF index >= numberSectors
                   THEN /\ tx' = sendNAKMessage(
                                     IndexTooLargeMessage(index, bytes))
                        /\ arduinoState' = WAITING_FOR_COMMAND
                   ELSE /\ tx' = sendACK \o <<bytes[1], bytes[2]>>
                        /\ arduinoState' = PROGRAM_SECTOR_GOT_INDEX
    /\ UNCHANGED <<pc, sectorData, i, startAddress, errorMessage, leds, hw,
                   rx>>

\* getAndValidateSectorIndex in the model's build, with its scaled chip.
getAndValidateSectorIndex(b) ==
    getAndValidateSectorIndexOf(b, SST_NUMBER_SECTORS)

\* Faulty variant: a NAK on the echoed index aborts the transaction.
confirmSectorIndex_NakAborts(b) ==
    /\ pc = "run"
    /\ rd' = <<b>>
    /\ arduinoState = PROGRAM_SECTOR_GOT_INDEX
    /\ rx = <<>>
    /\ waited' = 0
    /\ IF b = ACK
       THEN /\ arduinoState' = PROGRAM_SECTOR_INDEX_CONFIRMED
            /\ inp' = Append(inp, <<arduinoState, b>>)
            /\ tx' = <<>>
       ELSE IF b = NAK
       THEN /\ arduinoState' = WAITING_FOR_COMMAND
            /\ inp' = <<>>
            /\ tx' = <<>>
       ELSE /\ tx' = sendNAKMessage(ConfirmIndexMessage(b))
            /\ arduinoState' = WAITING_FOR_COMMAND
            /\ inp' = Append(inp, <<arduinoState, b>>)
    /\ UNCHANGED <<pc, sectorIndex, sectorIndexBytes, sectorData, i,
                   startAddress, errorMessage, leds, hw, rx>>

\* PROGRAM_SECTOR_GOT_INDEX: confirmSectorIndex.
confirmSectorIndex(b) ==
    /\ pc = "run"
    /\ rd' = <<b>>
    /\ arduinoState = PROGRAM_SECTOR_GOT_INDEX
    /\ rx = <<>>
    /\ waited' = 0
    /\ IF b = ACK
       THEN /\ arduinoState' = PROGRAM_SECTOR_INDEX_CONFIRMED
            /\ inp' = Append(inp, Received(b))
            /\ tx' = <<>>
       ELSE IF b = NAK
       THEN /\ arduinoState' = BEGIN_PROGRAM_SECTOR
            /\ inp' = StandingAfterNak(arduinoState)
            /\ tx' = <<>>
       ELSE /\ tx' = sendNAKMessage(ConfirmIndexMessage(b))
            /\ arduinoState' = WAITING_FOR_COMMAND
            /\ inp' = Append(inp, Received(b))
    /\ UNCHANGED <<pc, sectorIndex, sectorIndexBytes, sectorData, i,
                   startAddress, errorMessage, leds, hw, rx>>

\* Faulty variant: every payload byte is echoed as soon as it is read.
receiveSectorData_EchoEachByte(b) ==
    /\ pc = "run"
    /\ rd' = <<b>>
    /\ arduinoState = PROGRAM_SECTOR_INDEX_CONFIRMED
    /\ rx = <<>>
    /\ waited' = 0
    /\ inp' = Append(inp, <<arduinoState, b>>)
    /\ sectorData' = [sectorData EXCEPT ![i + 1] = b]
    /\ tx' = <<b>>
    /\ IF i + 1 < SST_SECTOR_SIZE
       THEN /\ i' = i + 1
            /\ UNCHANGED arduinoState
       ELSE /\ i' = 0
            /\ arduinoState' = PROGRAM_SECTOR_GOT_DATA
    /\ UNCHANGED <<pc, sectorIndex, sectorIndexBytes, startAddress,
                   errorMessage, leds, hw, rx>>

\* PROGRAM_SECTOR_INDEX_CONFIRMED: one blockingSerialRead of
\* receiveSectorData; the last one is followed by the echo.
receiveSectorData(b) ==
    /\ pc = "run"
    /\ rd' = <<b>>
    /\ arduinoState = PROGRAM_SECTOR_INDEX_CONFIRMED
    /\ rx = <<>>
    /\ waited' = 0
    /\ inp' = Append(inp, Received(b))
    /\ sectorData' = [sectorData EXCEPT ![i + 1] = b]
    /\ IF i + 1 < SST_SECTOR_SIZE
       THEN /\ i' = i + 1
            /\ tx' = <<>>
            /\ UNCHANGED arduinoState
       ELSE /\ i' = 0
            /\ tx' = FirstBytes(sectorData', SST_SECTOR_SIZE)
            /\ arduinoState' = PROGRAM_SECTOR_GOT_DATA
    /\ UNCHANGED <<pc, sectorIndex, sectorIndexBytes, startAddress,
                   errorMessage, leds, hw, rx>>

\* Faulty variant: a NAK on the echoed payload asks for the index again.
confirmSectorData_NakRestarts(b) ==
    /\ pc = "run"
    /\ rd' = <<b>>
    /\ arduinoState = PROGRAM_SECTOR_GOT_DATA
    /\ rx = <<>>
    /\ waited' = 0
    /\ IF b = ACK
       THEN /\ pc' = "programSector"
            /\ inp' = Append(inp, <<arduinoState, b>>)
            /\ tx' = <<>>
            /\ UNCHANGED arduinoState
       ELSE IF b = NAK
       THEN /\ arduinoState' = BEGIN_PROGRAM_SECTOR
            /\ inp' = SelectSeq(inp, LAMBDA e : e[1] # PROGRAM_SECTOR_INDEX_CONFIRMED)
            /\ tx' = <<>>
            /\ UNCHANGED pc
       ELSE /\ tx' = sendNAKMessage(ConfirmDataMessage(b))
            /\ arduinoState' = WAITING_FOR_COMMAND
            /\ inp' = Append(inp, <<arduinoState, b>>)
            /\ UNCHANGED pc
    /\ UNCHANGED <<sectorIndex, sectorIndexBytes, sectorData, i,
                   startAddress, errorMessage, leds, hw, rx>>

\* Faulty variant: the ACK on the echoed payload is answered like a NAK.
confirmSectorData_AckRetries(b) ==
    /\ pc = "run"
    /\ rd' = <<b>>
    /\ arduinoState = PROGRAM_SECTOR_GOT_DATA
    /\ rx = <<>>
    /\ waited' = 0
    /\ IF b \in {ACK, NAK}
       THEN /\ arduinoState' = PROGRAM_SECTOR_INDEX_CONFIRMED
            /\ inp' = SelectSeq(inp, LAMBDA e : e[1] # PROGRAM_SECTOR_INDEX_CONFIRMED)
            /\ tx' = <<>>
            /\ UNCHANGED pc
       ELSE /\ tx' = sendNAKMessage(ConfirmDataMessage(b))
            /\ arduinoState' = WAITING_FOR_COMMAND
            /\ inp' = Append(inp, <<arduinoState, b>>)
            /\ UNCHANGED pc
    /\ UNCHANGED <<sectorIndex, sectorIndexBytes, sectorData, i,
                   startAddress, errorMessage, leds, hw, rx>>

\* Faulty variant: every byte but the NAK is taken as the acknowledgement.
confirmSectorData_AnyByteCommits(b) ==
    /\ pc = "run"
    /\ rd' = <<b>>
    /\ arduinoState = PROGRAM_SECTOR_GOT_DATA
    /\ rx = <<>>
    /\ waited' = 0
    /\ tx' = <<>>
    /\ IF b # NAK
       THEN /\ pc' = "programSector"
            /\ inp' = Append(inp, <<arduinoState, b>>)
            /\ UNCHANGED arduinoState
       ELSE /\ arduinoState' = PROGRAM_SECTOR_INDEX_CONFIRMED
            /\ inp' = SelectSeq(inp, LAMBDA e : e[1] # PROGRAM_SECTOR_INDEX_CONFIRMED)
            /\ UNCHANGED pc
    /\ UNCHANGED <<sectorIndex, sectorIndexBytes, sectorData, i,
                   startAddress, errorMessage, leds, hw, rx>>

\* PROGRAM_SECTOR_GOT_DATA: confirmSectorData; on ACK it returns true and
\* processSerialProgramSector calls programSector.
confirmSectorData(b) ==
    /\ pc = "run"
    /\ rd' = <<b>>
    /\ arduinoState = PROGRAM_SECTOR_GOT_DATA
    /\ rx = <<>>
    /\ waited' = 0
    /\ IF b = ACK
       THEN /\ pc' = "programSector"
            /\ inp' = Append(inp, Received(b))
            /\ tx' = <<>>
            /\ UNCHANGED arduinoState
       ELSE IF b = NAK
       THEN /\ arduinoState' = PROGRAM_SECTOR_INDEX_CONFIRMED
            /\ inp' = StandingAfterNak(arduinoState)
            /\ tx' = <<>>
            /\ UNCHANGED pc
       ELSE /\ tx' = sendNAKMessage(ConfirmDataMessage(b))
            /\ arduinoState' = WAITING_FOR_COMMAND
            /\ inp' = Append(inp, Received(b))
            /\ UNCHANGED pc
    /\ UNCHANGED <<sectorIndex, sectorIndexBytes, sectorData, i,
                   startAddress, errorMessage, leds, hw, rx>>

\* Faulty variant: the sector is erased without setting the data pins to
\* output first.
programSectorErase_NoDirection ==
    /\ pc = "programSector"
    /\ rd' = <<>>
    /\ startAddress' = StartAddress(sectorIndex)
    /\ LET h == eraseSector(hw, sectorIndex)
       IN  /\ hw' = h
           /\ IF Halted(h)
              THEN /\ EnterFail(h.halt)
                   /\ UNCHANGED i
              ELSE /\ pc' = "writeByte"
                   /\ i' = 0
                   /\ tx' = <<>>
                   /\ waited' = 0
                   /\ UNCHANGED <<errorMessage, leds>>
    /\ UNCHANGED <<arduinoState, sectorIndex, sectorIndexBytes, sectorData,
                   inp, rx>>

\* programSector, lines 105-108: the start address, data pins to output,
\* eraseSector.
programSectorErase ==
    /\ pc = "programSector"
    /\ rd' = <<>>
    /\ startAddress' = StartAddress(sectorIndex)
    /\ LET h == eraseSector(setDataPinsOut(hw), sectorIndex)
       IN  /\ hw' = h
           /\ IF Halted(h)
              THEN /\ EnterFail(h.halt)
                   /\ UNCHANGED i
              ELSE /\ pc' = "writeByte"
                   /\ i' = 0
                   /\ tx' = <<>>
                   /\ waited' = 0
                   /\ UNCHANGED <<errorMessage, leds>>
    /\ UNCHANGED <<arduinoState, sectorIndex, sectorIndexBytes, sectorData,
                   inp, rx>>

\* Faulty variant: the loop programs the sector from its last byte down.
programSectorWrite_Descending ==
    /\ pc = "writeByte"
    /\ rd' = <<>>
    /\ LET last == SST_SECTOR_SIZE - 1 - i
           h == writeByte(hw, startAddress + last, sectorData[last + 1])
       IN  /\ tx' = <<>>
           /\ waited' = 0
           /\ IF i + 1 < SST_SECTOR_SIZE
              THEN /\ hw' = h
                   /\ i' = i + 1
                   /\ UNCHANGED pc
              ELSE /\ hw' = setDataPinsIn(h)
                   /\ i' = 0
                   /\ pc' = "readByte"
    /\ UNCHANGED <<arduinoState, sectorIndex, sectorIndexBytes, sectorData,
                   startAddress, errorMessage, leds, inp, rx>>

\* Faulty variant: the data pins stay in output mode for the verification.
programSectorWrite_KeepsOutput ==
    /\ pc = "writeByte"
    /\ rd' = <<>>
    /\ LET h == writeByte(hw, ByteAddressOf(startAddress, i), sectorData[i + 1])
       IN  IF Halted(h)
           THEN /\ hw' = h
                /\ EnterFail(h.halt)
                /\ UNCHANGED i
           ELSE /\ tx' = <<>>
                /\ waited' = 0
                /\ UNCHANGED <<errorMessage, leds>>
                /\ hw' = h
                /\ IF i + 1 < SST_SECTOR_SIZE
                   THEN /\ i' = i + 1
                        /\ UNCHANGED pc
                   ELSE /\ i' = 0
                        /\ pc' = "readByte"
    /\ UNCHANGED <<arduinoState, sectorIndex, sectorIndexBytes, sectorData,
                   startAddress, inp, rx>>

\* programSector, lines 109-113: one writeByte of the loop; after the last
\* one the data pins are set to input.
programSectorWrite ==
    /\ pc = "writeByte"
    /\ rd' = <<>>
    /\ LET h == writeByte(hw, ByteAddressOf(startAddress, i), sectorData[i + 1])
       IN  IF Halted(h)
           THEN /\ hw' = h
                /\ EnterFail(h.halt)
                /\ UNCHANGED i
           ELSE /\ tx' = <<>>
                /\ waited' = 0
                /\ UNCHANGED <<errorMessage, leds>>
                /\ IF i + 1 < SST_SECTOR_SIZE
                   THEN /\ hw' = h
                        /\ i' = i + 1
                        /\ UNCHANGED pc
                   ELSE /\ hw' = setDataPinsIn(h)
                        /\ i' = 0
                        /\ pc' = "readByte"
    /\ UNCHANGED <<arduinoState, sectorIndex, sectorIndexBytes, sectorData,
                   startAddress, inp, rx>>

\* Faulty variant: the byte read back is not compared with the buffer.
programSectorVerify_NoCompare(sample) ==
    /\ pc = "readByte"
    /\ rd' = <<>>
    /\ hw' = readByte(hw, ByteAddressOf(startAddress, i), sample)
    /\ waited' = 0
    /\ IF i + 1 < SST_SECTOR_SIZE
       THEN /\ i' = i + 1
            /\ tx' = <<>>
            /\ UNCHANGED <<pc, arduinoState>>
       ELSE /\ i' = 0
            /\ tx' = sendACK
            /\ arduinoState' = WAITING_FOR_COMMAND
            /\ pc' = "run"
    /\ UNCHANGED <<sectorIndex, sectorIndexBytes, sectorData, startAddress,
                   errorMessage, leds, inp, rx>>

\* programSector, lines 114-122: one readByte of the verification loop and
\* its comparison; after the last one the ACK and the state change.
programSectorVerify(sample) ==
    /\ pc = "readByte"
    /\ rd' = <<>>
    /\ LET h == readByte(hw, ByteAddressOf(startAddress, i), sample)
       IN  /\ hw' = h
           /\ IF Halted(h)
              THEN /\ EnterFail(h.halt)
                   /\ UNCHANGED <<i, arduinoState>>
              ELSE IF h.ret # sectorData[i + 1]
              THEN /\ EnterFail(MsgVerifyFailed)
                   /\ UNCHANGED <<i, arduinoState>>
              ELSE /\ waited' = 0
                   /\ UNCHANGED <<errorMessage, leds>>
                   /\ IF i + 1 < SST_SECTOR_SIZE
                      THEN /\ i' = i + 1
                           /\ tx' = <<>>
                           /\ UNCHANGED <<pc, arduinoState>>
                      ELSE /\ i' = 0
                           /\ tx' = sendACK
                           /\ arduinoState' = WAITING_FOR_COMMAND
                           /\ pc' = "run"
    /\ UNCHANGED <<sectorIndex, sectorIndexBytes, sectorData, startAddress,
                   inp, rx>>

\* Faulty variant: the default case of the switch halts.
processSerialProgramSectorReturn_Halts ==
    /\ pc = "run"
    /\ rd' = <<>>
    /\ arduinoState \notin SectorStates
    /\ EnterFail(MsgVerifyFailed)
    /\ UNCHANGED <<arduinoState, sectorIndex, sectorIndexBytes, sectorData,
                   i, startAddress, hw, inp, rx>>

\* Faulty variant: the loop returns after any handler, whatever the state.
processSerialProgramSectorReturn_AnyState ==
    /\ pc = "run"
    /\ rd' = <<>>
    /\ pc' = "returned"
    /\ tx' = <<>>
    /\ waited' = 0
    /\ UNCHANGED <<arduinoState, sectorIndex, sectorIndexBytes, sectorData,
                   i, startAddress, errorMessage, leds, hw, inp, rx>>

\* processSerialProgramSector, default case of the switch: return.
processSerialProgramSectorReturn ==
    /\ pc = "run"
    /\ rd' = <<>>
    /\ arduinoState \notin SectorStates
    /\ pc' = "returned"
    /\ tx' = <<>>
    /\ waited' = 0
    /\ UNCHANGED <<arduinoState, sectorIndex, sectorIndexBytes, sectorData,
                   i, startAddress, errorMessage, leds, hw, inp, rx>>

-----------------------------------------------------------------------------
(* The fatal halt, fail.cpp: while (true) { sendNAKMessage; delay(5000) }  *)

failSend ==
    /\ pc = "fail"
    /\ rd' = <<>>
    /\ tx' = sendNAKMessage(errorMessage)
    /\ waited' = 0
    /\ pc' = "fail_delay"
    /\ UNCHANGED <<arduinoState, sectorIndex, sectorIndexBytes, sectorData,
                   i, startAddress, errorMessage, leds, hw, inp, rx>>

\* Faulty variant: the halt ends after the delay and the caller goes on.
failDelay_Returns ==
    /\ pc = "fail_delay"
    /\ rd' = <<>>
    /\ tx' = <<>>
    /\ waited' = 5000 * 1000
    /\ pc' = "run"
    /\ UNCHANGED <<arduinoState, sectorIndex, sectorIndexBytes, sectorData,
                   i, startAddress, errorMessage, leds, hw, inp, rx>>

failDelay ==
    /\ pc = "fail_delay"
    /\ rd' = <<>>
    /\ tx' = <<>>
    /\ waited' = 5000 * 1000
    /\ pc' = "fail"
    /\ UNCHANGED <<arduinoState, sectorIndex, sectorIndexBytes, sectorData,
                   i, startAddress, errorMessage, leds, hw, inp, rx>>

-----------------------------------------------------------------------------
(* Sector programming: the state at the call of                            *)
(* processSerialProgramSector, and its steps.                              *)

\* Flash contents before the transaction: erased, or a pattern.
FlashBefore ==
    {[a \in 0 .. (SST_FLASH_SIZE - 1) |-> 255],
     [a \in 0 .. (SST_FLASH_SIZE - 1) |-> (a * 37 + 64) % 256]}

\* The bus after setupControlPins, with the data pins in their reset mode.
HardwareAfterSetup(flash) ==
    [mode |-> "INPUT", we |-> 1, oe |-> 1, addr |-> 0, data |-> 0,
     flash |-> flash, cmd |-> <<>>, log |-> <<>>, halt |-> <<>>,
     glitch |-> FALSE, ret |-> 0, debug |-> DEBUG]

Init ==
    /\ arduinoState = BEGIN_PROGRAM_SECTOR
    /\ pc = "run"
    /\ sectorIndex \in StackWords
    /\ sectorIndexBytes = <<>>
    /\ sectorData \in {[k \in 1 .. SST_SECTOR_SIZE |-> g] : g \in StackBytes}
    /\ i = 0
    /\ startAddress = 0
    /\ errorMessage = <<>>
    /\ leds = setLEDStatus("WAITING_FOR_COMMUNICATION")
    /\ hw \in {HardwareAfterSetup(f) : f \in FlashBefore}
    /\ tx = <<>>
    /\ rd = <<>>
    /\ waited = 0
    /\ inp = <<>>
    /\ rx = <<>>
    /\ hostNaks = NoRejects

Next ==
    \/ \E b \in HostBytes : getAndValidateSectorIndex(b) /\ UNCHANGED hostNaks
    \/ \E b \in HostBytes : confirmSectorIndex(b) /\ UNCHANGED hostNaks
    \/ \E b \in HostBytes : receiveSectorData(b) /\ UNCHANGED hostNaks
    \/ \E b \in HostBytes : confirmSectorData(b) /\ UNCHANGED hostNaks
    \/ programSectorErase /\ UNCHANGED hostNaks
    \/ programSectorWrite /\ UNCHANGED hostNaks
    \/ \E sample \in Samples(hw, (startAddress + i) % (2 ^ ADDRESS_BUS_LENGTH)) :
          programSectorVerify(sample) /\ UNCHANGED hostNaks
    \/ processSerialProgramSectorReturn /\ UNCHANGED hostNaks
    \/ failSend /\ UNCHANGED hostNaks
    \/ failDelay /\ UNCHANGED hostNaks

Spec == Init /\ [][Next]_vars

-----------------------------------------------------------------------------
(* The link handshake, connectToDriver of communication_util.cpp.  The     *)
(* host writes into the UART buffer rx at any time.                        *)

ConnectPcs == {"connect_poll", "connect_clear", "connect_delay"}

\* The text of the NAK for a byte that is not the ACK.
ConnectMessage(incomingByte) ==
    Append(Append(MsgConnectHead, byteToHexHigh(incomingByte)),
           byteToHexLow(incomingByte))
    \o MsgConnectTail

\* A byte of the host arrives in the receive buffer.
hostSend(b) ==
    /\ pc \in ConnectPcs \cup {"connectToDriver"}
    /\ Len(rx) < MaxRx
    /\ rx' = Append(rx, b)
    /\ UNCHANGED <<arduinoState, pc, sectorIndex, sectorIndexBytes,
                   sectorData, i, startAddress, errorMessage, leds, hw, tx,
                   rd, waited, inp>>

\* Line 161: setLEDStatus(WAITING_FOR_COMMUNICATION).
connectToDriverEnter ==
    /\ pc = "connectToDriver"
    /\ rd' = <<>>
    /\ leds' = setLEDStatus("WAITING_FOR_COMMUNICATION")
    /\ pc' = "connect_poll"
    /\ tx' = <<>>
    /\ waited' = 0
    /\ UNCHANGED <<arduinoState, sectorIndex, sectorIndexBytes, sectorData,
                   i, startAddress, errorMessage, hw, inp, rx>>

\* Lines 166-177: a byte is available and is read and interpreted.
connectToDriverRead ==
    /\ pc = "connect_poll"
    /\ rx # <<>>
    /\ rx' = Tail(rx)
    /\ rd' = <<Head(rx)>>
    /\ waited' = 0
    /\ LET incomingByte == Head(rx)
       IN  IF incomingByte = 6
           THEN /\ pc' = "connected"
                /\ tx' = <<>>
           ELSE /\ tx' = sendNAKMessage(ConnectMessage(incomingByte))
                /\ pc' = "connect_clear"
    /\ UNCHANGED <<arduinoState, sectorIndex, sectorIndexBytes, sectorData,
                   i, startAddress, errorMessage, leds, hw, inp>>

\* Faulty variant: an ACK among the bytes that are cleared ends the handshake.
connectToDriverClear_AcceptsAck ==
    /\ pc = "connect_clear"
    /\ IF rx # <<>>
       THEN /\ rx' = Tail(rx)
            /\ rd' = <<Head(rx)>>
            /\ pc' = IF Head(rx) = 6 THEN "connected" ELSE pc
       ELSE /\ pc' = "connect_poll"
            /\ rd' = <<>>
            /\ UNCHANGED rx
    /\ tx' = <<>>
    /\ waited' = 0
    /\ UNCHANGED <<arduinoState, sectorIndex, sectorIndexBytes, sectorData,
                   i, startAddress, errorMessage, leds, hw, inp>>

\* Faulty variant: one byte is cleared after a NAK, not the whole buffer.
connectToDriverClear_OneByte ==
    /\ pc = "connect_clear"
    /\ IF rx # <<>>
       THEN /\ rx' = Tail(rx)
            /\ rd' = <<Head(rx)>>
       ELSE /\ rd' = <<>>
            /\ UNCHANGED rx
    /\ pc' = "connect_poll"
    /\ tx' = <<>>
    /\ waited' = 0
    /\ UNCHANGED <<arduinoState, sectorIndex, sectorIndexBytes, sectorData,
                   i, startAddress, errorMessage, leds, hw, inp>>

\* Line 179: one Serial.read() of the loop that clears the buffer, or the
\* end of that loop when nothing is available.
connectToDriverClear ==
    /\ pc = "connect_clear"
    /\ IF rx # <<>>
       THEN /\ rx' = Tail(rx)
            /\ rd' = <<Head(rx)>>
            /\ UNCHANGED pc
       ELSE /\ pc' = "connect_poll"
            /\ rd' = <<>>
            /\ UNCHANGED rx
    /\ tx' = <<>>
    /\ waited' = 0
    /\ UNCHANGED <<arduinoState, sectorIndex, sectorIndexBytes, sectorData,
                   i, startAddress, errorMessage, leds, hw, inp>>

\* Faulty variant: the token is sent without its zero byte.
connectToDriverBroadcast_NoTerminator ==
    /\ pc = "connect_poll"
    /\ rd' = <<>>
    /\ rx = <<>>
    /\ tx' = WaitingToken
    /\ waited' = 0
    /\ pc' = "connect_delay"
    /\ UNCHANGED <<arduinoState, sectorIndex, sectorIndexBytes, sectorData,
                   i, startAddress, errorMessage, leds, hw, inp, rx>>

\* Lines 183-184: nothing is available: "WAITING" and a zero byte.
connectToDriverBroadcast ==
    /\ pc = "connect_poll"
    /\ rd' = <<>>
    /\ rx = <<>>
    /\ tx' = WaitingToken \o <<0>>
    /\ waited' = 0
    /\ pc' = "connect_delay"
    /\ UNCHANGED <<arduinoState, sectorIndex, sectorIndexBytes, sectorData,
                   i, startAddress, errorMessage, leds, hw, inp, rx>>

\* Line 186: delay(1000).
connectToDriverDelay ==
    /\ pc = "connect_delay"
    /\ rd' = <<>>
    /\ tx' = <<>>
    /\ waited' = 1000 * 1000
    /\ pc' = "connect_poll"
    /\ UNCHANGED <<arduinoState, sectorIndex, sectorIndexBytes, sectorData,
                   i, startAddress, errorMessage, leds, hw, inp, rx>>

\* The state at the call of connectToDriver: the LEDs after setupLEDs or
\* showing a status, nothing received yet.
InitConnect ==
    /\ arduinoState = WAITING_FOR_COMMAND
    /\ pc = "connectToDriver"
    /\ sectorIndex = 0
    /\ sectorIndexBytes = <<>>
    /\ sectorData = [k \in 1 .. SST_SECTOR_SIZE |-> 0]
    /\ i = 0
    /\ startAddress = 0
    /\ errorMessage = <<>>
    /\ leds \in {[l \in LedPins |-> 0]} \cup {setLEDStatus(s) : s \in LEDStatus}
    /\ hw = HardwareAfterSetup([a \in 0 .. (SST_FLASH_SIZE - 1) |-> 255])
    /\ tx = <<>>
    /\ rd = <<>>
    /\ waited = 0
    /\ inp = <<>>
    /\ rx = <<>>
    /\ hostNaks = NoRejects

NextConnect ==
    \/ \E b \in HostBytes : hostSend(b) /\ UNCHANGED hostNaks
    \/ connectToDriverEnter /\ UNCHANGED hostNaks
    \/ connectToDriverRead /\ UNCHANGED hostNaks
    \/ connectToDriverClear /\ UNCHANGED hostNaks
    \/ connectToDriverBroadcast /\ UNCHANGED hostNaks
    \/ connectToDriverDelay /\ UNCHANGED hostNaks

SpecConnect == InitConnect /\ [][NextConnect]_vars

-----------------------------------------------------------------------------
(* Properties.  The host's view of a transaction is read off inp, the      *)
(* bytes it sent, not off the firmware's variables.                        *)

\* The events of the bus log with a given op.
Events(op) == SelectSeq(hw.log, LAMBDA e : e.op = op)

\* The host sent two index bytes and answered ACK to their echo.
HostAckedIndex ==
    /\ Len(inp) >= 3
    /\ inp[1][1] = BEGIN_PROGRAM_SECTOR
    /\ inp[2][1] = BEGIN_PROGRAM_SECTOR
    /\ inp[3] = <<PROGRAM_SECTOR_GOT_INDEX, 6>>

\* The host then sent a whole payload and answered ACK to its echo.
HostAckedData ==
    /\ Len(inp) = 3 + SectorSize + 1
    /\ \A k \in 1 .. SectorSize : inp[3 + k][1] = PROGRAM_SECTOR_INDEX_CONFIRMED
    /\ inp[3 + SectorSize + 1] = <<PROGRAM_SECTOR_GOT_DATA, 6>>

\* The index the host sent, low byte first.
HostIndex == inp[1][2] + 256 * inp[2][2]

\* The payload the host sent last.
HostPayload == [k \in 1 .. SectorSize |-> inp[3 + k][2]]

\* The bytes of a sequence of bus events.
DataOf(events) == [k \in 1 .. Len(events) |-> events[k].data]

\* C1: no write cycle reaches the flash bus unless the host has answered
\* ACK to the echoed index and then ACK to the echo of the payload, which is
\* the payload in the sector buffer; and while the state is
\* BEGIN_PROGRAM_SECTOR, PROGRAM_SECTOR_GOT_INDEX or
\* PROGRAM_SECTOR_INDEX_CONFIRMED the bus log is empty.
C1_WritesOnlyAfterBothAcks ==
    /\ Events("send") # <<>> =>
          /\ HostAckedIndex
          /\ HostAckedData
          /\ sectorData = HostPayload
    /\ arduinoState \in {BEGIN_PROGRAM_SECTOR, PROGRAM_SECTOR_GOT_INDEX,
                         PROGRAM_SECTOR_INDEX_CONFIRMED} => hw.log = <<>>

\* A write cycle has been issued, after a payload holding ACK and NAK bytes.
C1_Witness ==
    /\ pc = "writeByte"
    /\ Events("send") # <<>>
    /\ HostPayload = <<6, 21>> \o [k \in 1 .. (SectorSize - 2) |-> 0]

\* C2: when a transaction for index i and payload P has completed with the
\* final ACK and every read sampled the chip's byte, address
\* i * sectorSize + k of the flash holds P[k] for every k.
C2_ProgrammedSectorHoldsPayload ==
    (/\ arduinoState = WAITING_FOR_COMMAND
     /\ HostAckedIndex
     /\ HostAckedData
     /\ ~hw.glitch)
    => \A k \in 0 .. (SectorSize - 1) :
          hw.flash[HostIndex * SectorSize + k] = HostPayload[k + 1]

\* Sector 1 has been programmed over a flash that was not erased.
C2_Witness ==
    /\ arduinoState = WAITING_FOR_COMMAND
    /\ pc = "returned"
    /\ HostAckedIndex
    /\ HostAckedData
    /\ HostIndex = 1
    /\ HostPayload[1] = 65
    /\ HostPayload[2] = 188
    /\ hw.flash[0] # 255
    /\ ~hw.glitch

\* The bytes sent are one NAK message: 0x15, a text without zero byte, 0x00.
IsNakMessage(bytes) ==
    /\ Len(bytes) >= 2
    /\ bytes[1] = 21
    /\ bytes[Len(bytes)] = 0
    /\ \A k \in 2 .. (Len(bytes) - 1) : bytes[k] \notin {0, 6, 21}

\* The host's two index bytes decode to an index that is out of range.
HostIndexRejected ==
    /\ Len(inp) = 2
    /\ inp[1][1] = BEGIN_PROGRAM_SECTOR
    /\ inp[2][1] = BEGIN_PROGRAM_SECTOR
    /\ HostIndex >= FlashSize \div SectorSize

\* C3: after two index bytes that decode to an index >= N the firmware has
\* sent one NAK message and nothing else (no ACK, no echo), the state is
\* WAITING_FOR_COMMAND, the bus has seen no event, and the function returns
\* with the bus log still empty.
C3_OutOfRangeIndexRejected ==
    HostIndexRejected =>
       /\ arduinoState = WAITING_FOR_COMMAND
       /\ hw.log = <<>>
       /\ pc \in {"run", "returned"}
       /\ pc = "run" => IsNakMessage(tx)
       /\ pc = "returned" => tx = <<>>

\* Index 256 (bytes 0x00 0x01) has been rejected and the function returned.
C3_Witness ==
    /\ HostIndexRejected
    /\ inp[1][2] = 0
    /\ inp[2][2] = 1
    /\ pc = "returned"

\* C4: after an accepted index the output is ACK and the two index bytes in
\* the order received; after the last payload byte the output is the
\* sectorSize payload bytes in the order received; and while the payload is
\* being received nothing is sent.
C4_EchoEqualsInput ==
    /\ (pc = "run" /\ arduinoState = PROGRAM_SECTOR_GOT_INDEX)
          => tx = <<6, inp[1][2], inp[2][2]>>
    /\ (pc = "run" /\ arduinoState = PROGRAM_SECTOR_GOT_DATA)
          => /\ Len(inp) = 3 + SectorSize
             /\ Len(tx) = SectorSize
             /\ \A k \in 1 .. SectorSize : tx[k] = inp[3 + k][2]
    /\ (pc = "run" /\ arduinoState = PROGRAM_SECTOR_INDEX_CONFIRMED)
          => tx = <<>>

\* A payload that starts with the bytes 0x06 0x15 has been echoed, after the
\* index 0x01 0x00.
C4_Witness ==
    /\ pc = "run"
    /\ arduinoState = PROGRAM_SECTOR_GOT_DATA
    /\ inp[1][2] = 1
    /\ tx[1] = 6
    /\ tx[2] = 21


\* A step of a confirm handler that read the byte b in state s.
ConfirmRead(s, b) == pc = "run" /\ arduinoState = s /\ rd' = <<b>>

\* C5: a NAK read at a confirm step puts the state back to the one before:
\* PROGRAM_SECTOR_GOT_INDEX to BEGIN_PROGRAM_SECTOR, PROGRAM_SECTOR_GOT_DATA
\* to PROGRAM_SECTOR_INDEX_CONFIRMED; that step leaves the bus and the chip
\* as they are and sends nothing.
C5_NakReturnsToPriorState ==
    [][/\ ConfirmRead(PROGRAM_SECTOR_GOT_INDEX, 21)
          => /\ arduinoState' = BEGIN_PROGRAM_SECTOR
             /\ hw' = hw
             /\ tx' = <<>>
             /\ pc' = "run"
       /\ ConfirmRead(PROGRAM_SECTOR_GOT_DATA, 21)
          => /\ arduinoState' = PROGRAM_SECTOR_INDEX_CONFIRMED
             /\ hw' = hw
             /\ tx' = <<>>
             /\ pc' = "run"]_vars

\* A NAK has been read at the data confirm step, after one at the index
\* confirm step: the index stands, the payload is awaited again.
C5_Witness ==
    /\ rd = <<21>>
    /\ arduinoState = PROGRAM_SECTOR_INDEX_CONFIRMED
    /\ HostAckedIndex
    /\ Len(inp) = 3
    /\ sectorData[1] = 188

\* The two-digit uppercase hex of a byte, high nibble first.
HexDigit(n) == <<48, 49, 50, 51, 52, 53, 54, 55, 56, 57, 65, 66, 67, 68,
                 69, 70>>[n + 1]

\* The bytes contain "0x" followed by the hex of b.
NamesByteInHex(bytes, b) ==
    \E k \in 1 .. (Len(bytes) - 3) :
        /\ bytes[k] = 48
        /\ bytes[k + 1] = 120
        /\ bytes[k + 2] = HexDigit(b \div 16)
        /\ bytes[k + 3] = HexDigit(b % 16)

\* The last byte the host sent was read at a confirm step and is neither ACK
\* nor NAK.
AbortedAtConfirm ==
    /\ inp # <<>>
    /\ inp[Len(inp)][1] \in {PROGRAM_SECTOR_GOT_INDEX, PROGRAM_SECTOR_GOT_DATA}
    /\ inp[Len(inp)][2] \notin {6, 21}

\* C6: a byte other than ACK and NAK read at either confirm step is
\* answered by one NAK message that names the byte in two-digit uppercase
\* hex; the state becomes WAITING_FOR_COMMAND, the bus and the chip are left
\* as they are, and the function returns with the bus log empty.
C6_UnexpectedConfirmByteAborts ==
    [][\A s \in {PROGRAM_SECTOR_GOT_INDEX, PROGRAM_SECTOR_GOT_DATA} :
       \A b \in 0 .. 255 :
          (b \notin {6, 21} /\ ConfirmRead(s, b))
          => /\ IsNakMessage(tx')
             /\ NamesByteInHex(tx', b)
             /\ arduinoState' = WAITING_FOR_COMMAND
             /\ hw' = hw
             /\ pc' = "run"]_vars
    /\ [](AbortedAtConfirm
            => /\ arduinoState = WAITING_FOR_COMMAND
               /\ pc \in {"run", "returned"}
               /\ hw.log = <<>>)

\* The byte 0xBC has been read at the data confirm step and the function
\* has returned.
C6_Witness ==
    /\ pc = "returned"
    /\ Len(inp) = 3 + SectorSize + 1
    /\ inp[Len(inp)] = <<PROGRAM_SECTOR_GOT_DATA, 188>>
    /\ hw.log = <<>>


\* The (address, data) pairs of a sequence of bus events.
Cycles(events) == [k \in 1 .. Len(events) |-> <<events[k].addr, events[k].data>>]

RECURSIVE ProgramCycles(_, _, _)
\* The write cycles that program the bytes k.. of a payload at base + k - 1.
ProgramCycles(base, payload, k) ==
    IF k > Len(payload) THEN <<>>
    ELSE << <<21845, 170>>, <<10922, 85>>, <<21845, 160>>,
            <<base + k - 1, payload[k]>> >>
         \o ProgramCycles(base, payload, k + 1)

\* The write cycles of a commit: the sector erase sequence, then one program
\* sequence per payload byte, addresses increasing.
CommitCycles(index, payload) ==
    << <<21845, 170>>, <<10922, 85>>, <<21845, 128>>, <<21845, 170>>,
       <<10922, 85>>, <<index * SectorSize, 48>> >>
    \o ProgramCycles(index * SectorSize, payload, 1)

\* C7: the commit runs in a fixed order.  The write cycles on the bus are
\* always a prefix of: the erase sequence of the sector, then the program
\* sequences of addresses i*sectorSize+0, +1, ... with the payload bytes;
\* no read is issued before all of them, the reads go through the same
\* addresses in increasing order, and the final ACK is sent and the state
\* is WAITING_FOR_COMMAND only when all sectorSize reads have returned the
\* payload bytes.
C7_CommitOrder ==
    hw.log # <<>> =>
       LET sends == Cycles(Events("send"))
           reads == Cycles(Events("read"))
           expected == CommitCycles(HostIndex, [k \in 1 .. SectorSize |-> HostPayload[k]])
       IN  /\ HostAckedIndex
           /\ HostAckedData
           /\ IsPrefix(sends, expected)
           /\ reads # <<>> => sends = expected
           /\ LET accesses == SelectSeq(hw.log,
                                        LAMBDA e : e.op \in {"send", "read"})
              IN  \A k \in 1 .. Len(accesses) :
                     accesses[k].op = "read" <=> k > Len(sends)
           /\ Len(reads) <= SectorSize
           /\ \A k \in 1 .. Len(reads) :
                 reads[k][1] = HostIndex * SectorSize + k - 1
           /\ (tx = <<6>> \/ arduinoState = WAITING_FOR_COMMAND)
                 => /\ Len(reads) = SectorSize
                    /\ \A k \in 1 .. SectorSize : reads[k][2] = HostPayload[k]
           /\ pc \in {"programSector", "writeByte", "readByte"} => tx = <<>>

\* The final ACK of a commit to sector 1 has just been sent.
C7_Witness ==
    /\ pc = "run"
    /\ tx = <<6>>
    /\ arduinoState = WAITING_FOR_COMMAND
    /\ Len(Events("read")) = SectorSize
    /\ HostIndex = 1
    /\ HostPayload[1] # HostPayload[2]

\* C8: a byte read back that differs from the payload byte is the last bus
\* access: the firmware is in the fatal halt with the ERROR LED on, the
\* state is still PROGRAM_SECTOR_GOT_DATA, and nothing but NAK messages is
\* sent.
C8_VerifyMismatchHalts ==
    hw.log # <<>> =>
       LET reads == Events("read")
       IN  \A k \in 1 .. Len(reads) :
              reads[k].data # HostPayload[k]
              => /\ k = Len(reads)
                 /\ hw.log[Len(hw.log) - 1] = reads[k]
                 /\ hw.log[Len(hw.log)].op = "oe"
                 /\ pc \in {"fail", "fail_delay"}
                 /\ arduinoState = PROGRAM_SECTOR_GOT_DATA
                 /\ tx = <<>> \/ IsNakMessage(tx)
                 /\ leds["ERROR_LED"] = 1

\* The first byte read back differed and the halt has sent its message.
C8_Witness ==
    /\ pc = "fail_delay"
    /\ Len(Events("read")) = 1
    /\ Events("read")[1].data # HostPayload[1]
    /\ SectorSize > 1
    /\ IsNakMessage(tx)



\* The fatal halt runs whenever it can: the processor does not stop.
FairSpec ==
    /\ Spec
    /\ WF_vars(failSend /\ UNCHANGED hostNaks)
    /\ WF_vars(failDelay /\ UNCHANGED hostNaks)

FailPcs == {"fail", "fail_delay"}

\* C9: fail never returns.  In the halt the ERROR LED alone is on, from
\* before the first output; each send is the NAK message of the failure
\* (0x15, the text, 0x00) and is followed by a delay of 5 seconds and the
\* next send, for ever; the protocol state, the message, the serial input
\* and the bus are left as they are.
C9_FailNeverReturns ==
    /\ [][(pc \in FailPcs)
            => (/\ pc' \in FailPcs
                /\ arduinoState' = arduinoState
                /\ errorMessage' = errorMessage
                /\ leds' = leds
                /\ hw' = hw
                /\ rd' = <<>>
                /\ inp' = inp
                /\ rx' = rx)]_vars
    /\ [][pc = "fail_delay" => (pc' = "fail" /\ waited' = 5000000)]_vars
    /\ [][(pc \notin FailPcs /\ pc' \in FailPcs)
            => (pc' = "fail" /\ tx' = <<>> /\ leds'["ERROR_LED"] = 1)]_vars
    /\ [](pc \in FailPcs
            => \A l \in LedPins : leds[l] = IF l = "ERROR_LED" THEN 1 ELSE 0)
    /\ [](pc = "fail_delay"
            => /\ tx = <<21>> \o errorMessage \o <<0>>
               /\ IsNakMessage(tx))
    /\ [](pc = "fail" => <>(pc = "fail_delay"))
    /\ [](pc = "fail_delay" => <>(pc = "fail"))

\* The halt of a failed verification has just sent its NAK message.
C9_Witness ==
    /\ pc = "fail_delay"
    /\ tx = <<21>> \o MsgVerifyFailed \o <<0>>
    /\ waited = 0
    /\ leds["ERROR_LED"] = 1

\* C10: connectToDriver lights the WAITING_FOR_COMMUNICATION LED alone on
\* entry, and it returns only in the step that reads the byte 0x06 at the
\* head of the receive buffer as a byte to interpret (not one of those it
\* clears after a NAK); every other step stays in its loop, which has no
\* bound: a broadcast is always followed by another poll.
C10_ConnectReturnsOnlyOnAck ==
    /\ [][pc' = "connected"
            => (/\ pc = "connect_poll"
                /\ rx # <<>>
                /\ Head(rx) = 6
                /\ rd' = <<6>>
                /\ rx' = Tail(rx))]_vars
    /\ [][(pc = "connectToDriver" /\ pc' # pc)
            => (pc' = "connect_poll" /\ tx' = <<>> /\ rd' = <<>>)]_vars
    /\ [](pc \in ConnectPcs \cup {"connected"}
            => \A l \in LedPins :
                  leds[l] = IF l = "WAITING_FOR_COMMUNICATION_LED" THEN 1 ELSE 0)
    /\ [](pc \in ConnectPcs => ENABLED (connectToDriverRead
                                         \/ connectToDriverClear
                                         \/ connectToDriverBroadcast
                                         \/ connectToDriverDelay))

\* The handshake has returned on reading an ACK, with the
\* WAITING_FOR_COMMUNICATION LED lit and the ERROR LED off.
C10_Witness ==
    /\ pc = "connected"
    /\ rd = <<6>>
    /\ leds["WAITING_FOR_COMMUNICATION_LED"] = 1
    /\ leds["ERROR_LED"] = 0

-----------------------------------------------------------------------------
(* The handshake's outputs.                                                *)

\* "got byte 0x"
TextGotByte ==
    <<103, 111, 116, 32, 98, 121, 116, 101, 32, 48, 120>>

\* " instead of 0x06 (ACK)."
TextInsteadOfAck ==
    <<32, 105, 110, 115, 116, 101, 97, 100, 32, 111, 102, 32, 48, 120, 48, 54,
      32, 40, 65, 67, 75, 41, 46>>

\* s ends with t.
EndsWith(s, t) ==
    Len(t) <= Len(s) /\ SubSeq(s, Len(s) - Len(t) + 1, Len(s)) = t

\* This step of the handshake reads b from the buffer and interprets it.
InterpretedRead(b) ==
    /\ pc = "connect_poll"
    /\ rx # <<>>
    /\ Head(rx) = b
    /\ rx' = Tail(rx)

\* "got byte 0xHH instead of 0x06 (ACK).", HH in uppercase, high nibble
\* first.
GotByteSentence(b) ==
    TextGotByte \o <<HexDigit(b \div 16), HexDigit(b % 16)>>
    \o TextInsteadOfAck

\* C11 as stated: the step that interprets a byte b other than 0x06 sends
\* one NAK frame whose text ends with "got byte 0xHH instead of 0x06 (ACK)."
\* and is immediately followed by the terminator 0x00.
C11_SentenceThenTerminator ==
    [][\A b \in HostBytes \ {6} :
          InterpretedRead(b)
          => (/\ IsNakMessage(tx')
              /\ EndsWith(tx', GotByteSentence(b) \o <<0>>))]_vars

\* C11 as amended: the step that interprets a byte b other than 0x06 sends
\* one NAK frame: 0x15, a text that ends with "got byte 0xHH instead of
\* 0x06 (ACK)." and one line feed (0x0A), then the terminator 0x00.
C11_SentenceLineFeedTerminator ==
    [][\A b \in HostBytes \ {6} :
          InterpretedRead(b)
          => (/\ IsNakMessage(tx')
              /\ EndsWith(tx', GotByteSentence(b) \o <<10, 0>>)
              /\ pc' = "connect_clear")]_vars

\* The byte 0xBC has been interpreted and answered: the frame names "BC".
C11_Witness ==
    /\ pc = "connect_clear"
    /\ rd = <<188>>
    /\ IsNakMessage(tx)
    /\ EndsWith(tx, <<48, 120, 66, 67>> \o TextInsteadOfAck \o <<10, 0>>)

\* 'W','A','I','T','I','N','G',0x00.
BroadcastFrame == <<87, 65, 73, 84, 73, 78, 71, 0>>

\* C12: every broadcast of the handshake loop is exactly the 8 bytes
\* "WAITING" and 0x00; it is sent only by a step that finds the receive
\* buffer empty at the end of a drain pass (no ACK having been read: the
\* loop is still running); the step after a broadcast is the pause of
\* 1000 ms, which reads nothing, and the next drain pass begins after it.
\* Nothing but NAK frames and broadcasts is ever sent.
C12_BroadcastThenPause ==
    /\ [][(pc' = "connect_delay" /\ pc # "connect_delay")
            => (/\ pc = "connect_poll"
                /\ rx = <<>>
                /\ rd' = <<>>
                /\ tx' = BroadcastFrame)]_vars
    /\ [][(pc = "connect_delay" /\ pc' # pc)
            => (/\ pc' = "connect_poll"
                /\ waited' = 1000 * 1000
                /\ tx' = <<>>
                /\ rd' = <<>>
                /\ rx' = rx)]_vars
    /\ [](pc = "connect_delay" => (tx = BroadcastFrame /\ rd = <<>>))
    /\ [](tx # <<>> => \/ pc = "connect_delay" /\ tx = BroadcastFrame
                       \/ pc = "connect_clear" /\ IsNakMessage(tx))
    /\ [](pc = "connected" => tx = <<>>)

\* A broadcast has been sent and the pause after it has ended, with a byte
\* of the host waiting for the next drain pass.
C12_Witness ==
    /\ pc = "connect_poll"
    /\ waited = 1000 * 1000
    /\ tx = <<>>
    /\ rx = <<65>>

-----------------------------------------------------------------------------
(* sendNAKMessage on texts around MAX_NAK_MESSAGE_LENGTH: a String is      *)
(* built by concatenation, as its callers build it, and sent.              *)

\* Lengths of the texts the concatenation starts from.
NakBaseLengths == {0, 226, 253}
\* Characters that are appended: 'A' and 'z'.
TextChars == {65, 122}
\* A printable text of n characters, each position with its own character.
BaseText(n) == [k \in 1 .. n |-> 33 + ((k * 7) % 90)]

\* String::operator+=: one character is appended to the text.
nakConcat(c) ==
    /\ pc = "nak_build"
    /\ i < MaxAppend
    /\ i' = i + 1
    /\ errorMessage' = Append(errorMessage, c)
    /\ UNCHANGED <<arduinoState, pc, sectorIndex, sectorIndexBytes,
                   sectorData, startAddress, leds, hw, tx, rd, waited, inp,
                   rx>>

\* sendNAKMessage(errorMessage): the bytes go out on Serial.
nakSend ==
    /\ pc = "nak_build"
    /\ tx' = sendNAKMessage(errorMessage)
    /\ pc' = "nak_sent"
    /\ UNCHANGED <<arduinoState, sectorIndex, sectorIndexBytes, sectorData,
                   i, startAddress, errorMessage, leds, hw, rd, waited, inp,
                   rx>>

InitNak ==
    /\ arduinoState = WAITING_FOR_COMMAND
    /\ pc = "nak_build"
    /\ sectorIndex = 0
    /\ sectorIndexBytes = <<>>
    /\ sectorData = [k \in 1 .. SST_SECTOR_SIZE |-> 0]
    /\ i = 0
    /\ startAddress = 0
    /\ errorMessage \in {BaseText(n) : n \in NakBaseLengths}
    /\ leds = setLEDStatus("WORKING")
    /\ hw = HardwareAfterSetup([a \in 0 .. (SST_FLASH_SIZE - 1) |-> 255])
    /\ tx = <<>>
    /\ rd = <<>>
    /\ waited = 0
    /\ inp = <<>>
    /\ rx = <<>>
    /\ hostNaks = NoRejects

NextNak ==
    \/ \E c \in TextChars : nakConcat(c) /\ UNCHANGED hostNaks
    \/ nakSend /\ UNCHANGED hostNaks

SpecNak == InitNak /\ [][NextNak]_vars

\* The frame carries the truncation prefix right after the control byte.
HasTruncationPrefix(frame) ==
    /\ Len(frame) >= 1 + Len(errorMessagePrefix)
    /\ SubSeq(frame, 2, 1 + Len(errorMessagePrefix)) = errorMessagePrefix

\* C13: every frame sendNAKMessage emits starts with 0x15, ends with 0x00
\* and is at most 257 bytes long; it carries the truncation prefix if and
\* only if the text is longer than 255 bytes; a text of at most 255 bytes
\* (exactly 255 included) is sent whole between the two.
C13_NakFraming ==
    pc = "nak_sent"
    => /\ tx[1] = 21
       /\ tx[Len(tx)] = 0
       /\ Len(tx) <= 257
       /\ HasTruncationPrefix(tx) <=> Len(errorMessage) > 255
       /\ Len(errorMessage) <= 255 => tx = <<21>> \o errorMessage \o <<0>>

\* A text of exactly 255 bytes has been sent whole, in a frame of 257.
C13_Witness ==
    /\ pc = "nak_sent"
    /\ Len(errorMessage) = 255
    /\ Len(tx) = 257
    /\ SubSeq(tx, 2, 256) = errorMessage

\* C14: when the text and its terminator exceed 256 bytes the frame is
\* 0x15, the 27 bytes "Error too long. Truncated:\n", the first 228 bytes
\* of the text in order, and one 0x00: 257 bytes, whatever follows the
\* first 228 bytes of the text.
C14_TruncatedFrame ==
    (pc = "nak_sent" /\ Len(errorMessage) + 1 > 256)
    => /\ Len(errorMessagePrefix) = 27
       /\ Len(tx) = 257
       /\ tx[1] = 21
       /\ SubSeq(tx, 2, 28) = errorMessagePrefix
       /\ SubSeq(tx, 29, 256) = SubSeq(errorMessage, 1, 228)
       /\ tx[257] = 0
       /\ \A k \in 229 .. Len(errorMessage) : \A c \in TextChars :
             sendNAKMessage([errorMessage EXCEPT ![k] = c]) = tx

\* A text of 257 bytes has been truncated: its last byte, 'z', is not sent.
C14_Witness ==
    /\ pc = "nak_sent"
    /\ Len(errorMessage) = 257
    /\ errorMessage[257] = 122
    /\ HasTruncationPrefix(tx)
    /\ tx[256] = errorMessage[228]

\* "sector index "
TextSectorIndex ==
    <<115, 101, 99, 116, 111, 114, 32, 105, 110, 100, 101, 120, 32>>

\* ", which is too large."
TextTooLarge ==
    <<44, 32, 119, 104, 105, 99, 104, 32, 105, 115, 32, 116, 111, 111, 32,
      108, 97, 114, 103, 101, 46>>

\* C15: for every rejected index v the NAK text ends with "sector index
\* <v>, which is too large.", v in decimal, immediately followed by the
\* terminator 0x00, and the state afterwards is WAITING_FOR_COMMAND.
C15_TooLargeSentenceThenTerminator ==
    (HostIndexRejected /\ pc = "run")
    => /\ IsNakMessage(tx)
       /\ EndsWith(tx, TextSectorIndex \o DecimalString(HostIndex)
                       \o TextTooLarge \o <<0>>)
       /\ arduinoState = WAITING_FOR_COMMAND

-----------------------------------------------------------------------------
(* The index phase with the sector count of the configured chip,           *)
(* sst_constants.h: 262144 bytes of flash in sectors of 4096 bytes.        *)

CONFIGURED_FLASH_SIZE == 262144
CONFIGURED_SECTOR_SIZE == 4096

\* Faulty variant: one sector more than the flash holds.
CONFIGURED_NUMBER_SECTORS_OneMore ==
    (CONFIGURED_FLASH_SIZE \div CONFIGURED_SECTOR_SIZE) + 1

\* SST_NUMBER_SECTORS as sst_constants.h computes it.
CONFIGURED_NUMBER_SECTORS == CONFIGURED_FLASH_SIZE \div CONFIGURED_SECTOR_SIZE

\* Index bytes of the host: around the sector count, and the extremes.
ChipIndexBytes == {0, 1, 63, 64, 65, 255}

\* getAndValidateSectorIndex in the build for the configured chip.
getAndValidateSectorIndexChip(b) ==
    getAndValidateSectorIndexOf(b, CONFIGURED_NUMBER_SECTORS)

NextChip ==
    \/ \E b \in ChipIndexBytes : getAndValidateSectorIndexChip(b) /\ UNCHANGED hostNaks
    \/ \E b \in HostBytes : confirmSectorIndex(b) /\ UNCHANGED hostNaks
    \/ processSerialProgramSectorReturn /\ UNCHANGED hostNaks

SpecChip == Init /\ [][NextChip]_vars

\* Both index bytes have been read and the firmware has answered.
IndexAnswered ==
    /\ pc = "run"
    /\ Len(inp) = 2
    /\ inp[1][1] = BEGIN_PROGRAM_SECTOR
    /\ inp[2][1] = BEGIN_PROGRAM_SECTOR
    /\ rd # <<>>

\* The index the host sent was accepted: ACK and the echo of its bytes.
IndexAcceptedAnswer ==
    /\ arduinoState = PROGRAM_SECTOR_GOT_INDEX
    /\ tx = <<6, inp[1][2], inp[2][2]>>

\* The index the host sent was rejected: a NAK message, and the abort.
IndexRejectedAnswer ==
    /\ arduinoState = WAITING_FOR_COMMAND
    /\ IsNakMessage(tx)

\* C16 as stated: the accepted indices are exactly [0, N), and for the
\* configured chip N is 65: index 64 is accepted and 65 is the smallest
\* rejected index.
C16_SixtyFiveSectors ==
    IndexAnswered
    => /\ HostIndex < 65 => IndexAcceptedAnswer
       /\ HostIndex >= 65 => IndexRejectedAnswer

\* C16 as amended: the accepted indices are exactly [0, N) with N = flash
\* size / sector size, and for the configured chip N is 64: index 63 is
\* accepted (ACK and echo) and 64 is the smallest rejected index.
C16_SixtyFourSectors ==
    IndexAnswered
    => /\ HostIndex < 64 => IndexAcceptedAnswer
       /\ HostIndex >= 64 => IndexRejectedAnswer

\* Index 64 (bytes 0x40 0x00) has been rejected.
C16_Witness ==
    /\ IndexAnswered
    /\ inp[1][2] = 64
    /\ inp[2][2] = 0
    /\ IndexRejectedAnswer

-----------------------------------------------------------------------------
(* processSerialProgramSector called in any state of the Arduino: its      *)
(* locals are not initialised, whatever the state at the call.             *)

InitAnyState ==
    /\ arduinoState \in ArduinoState
    /\ pc = "run"
    /\ sectorIndex \in StackWords
    /\ sectorIndexBytes = <<>>
    /\ sectorData \in {[k \in 1 .. SST_SECTOR_SIZE |-> g] : g \in StackBytes}
    /\ i = 0
    /\ startAddress = 0
    /\ errorMessage = <<>>
    /\ leds = setLEDStatus("WAITING_FOR_COMMUNICATION")
    /\ hw \in {HardwareAfterSetup(f) : f \in FlashBefore}
    /\ tx = <<>>
    /\ rd = <<>>
    /\ waited = 0
    /\ inp = <<>>
    /\ rx = <<>>
    /\ hostNaks = NoRejects

SpecAnyState == InitAnyState /\ [][Next]_vars

\* The function has just been called in a state that is none of the four
\* sector states.
CalledOutsideSectorStates ==
    /\ pc = "run"
    /\ inp = <<>>
    /\ rd = <<>>
    /\ arduinoState \notin SectorStates

\* C17 as stated: called in WAITING_FOR_COMMAND, BEGIN_ERASE_CHIP or DONE,
\* the firmware enters the fatal halt instead of returning to the caller.
C17_OutsideStatesAreFatal ==
    [][CalledOutsideSectorStates => pc' \in FailPcs]_vars

\* C17 as amended: called in WAITING_FOR_COMMAND, BEGIN_ERASE_CHIP or DONE,
\* the function returns to the caller at once: it reads nothing, sends
\* nothing, issues no bus cycle, and leaves the state and the LEDs as they
\* were; it does not enter the fatal halt.
C17_OutsideStatesReturn ==
    [][CalledOutsideSectorStates
         => (/\ pc' = "returned"
             /\ arduinoState' = arduinoState
             /\ rd' = <<>>
             /\ tx' = <<>>
             /\ hw' = hw
             /\ leds' = leds
             /\ errorMessage' = <<>>)]_vars

\* The function was called in DONE and has returned.
C17_Witness ==
    /\ pc = "returned"
    /\ arduinoState = DONE
    /\ inp = <<>>
    /\ hw.log = <<>>

\* C18: while the state is one of the four sector states the loop runs the
\* handler of that state (each reads one byte) and does not return; when
\* the state is outside them the next step is the return, which leaves the
\* state as it is; and an invocation that was entered in a sector state (it
\* has read input) returns only in WAITING_FOR_COMMAND.
C18_DispatchLoop ==
    /\ [][(pc = "run" /\ arduinoState \in SectorStates)
            => (/\ pc' \in {"run", "programSector"}
                /\ Len(rd') = 1)]_vars
    /\ [][(pc = "run" /\ arduinoState \notin SectorStates)
            => (pc' = "returned" /\ arduinoState' = arduinoState)]_vars
    /\ [][(pc # "returned" /\ pc' = "returned")
            => (pc = "run" /\ arduinoState \notin SectorStates)]_vars
    /\ [](pc = "run" =>
            /\ arduinoState = BEGIN_PROGRAM_SECTOR
                  => ENABLED getAndValidateSectorIndex(6)
            /\ arduinoState = PROGRAM_SECTOR_GOT_INDEX
                  => ENABLED confirmSectorIndex(6)
            /\ arduinoState = PROGRAM_SECTOR_INDEX_CONFIRMED
                  => ENABLED receiveSectorData(6)
            /\ arduinoState = PROGRAM_SECTOR_GOT_DATA
                  => ENABLED confirmSectorData(6)
            /\ arduinoState \notin SectorStates
                  => ENABLED processSerialProgramSectorReturn)
    /\ []((pc = "returned" /\ inp # <<>>)
            => arduinoState = WAITING_FOR_COMMAND)

\* An invocation entered in PROGRAM_SECTOR_GOT_INDEX has read a byte that
\* is neither ACK nor NAK and has returned, in WAITING_FOR_COMMAND.
C18_Witness ==
    /\ pc = "returned"
    /\ inp = <<<<PROGRAM_SECTOR_GOT_INDEX, 65>>>>
    /\ arduinoState = WAITING_FOR_COMMAND

-----------------------------------------------------------------------------
(* The bus cycles of one driver call, read off the events the call adds    *)
(* to the log.                                                             *)

\* The events the step adds to the bus log.
NewEvents == SubSeq(hw'.log, Len(hw.log) + 1, Len(hw'.log))

\* The largest and smallest element of a finite set of naturals.
MaxOf(S) == CHOOSE m \in S : \A n \in S : n <= m
MinOf(S) == CHOOSE m \in S : \A n \in S : m <= n

\* The positions of the events of ev that drive line op to a level.
Drives(ev, op, level) ==
    {k \in 1 .. Len(ev) : ev[k].op = op /\ ev[k].data = level}

\* The position of the last op event before position k (0: there is none).
LastBefore(ev, op, k) ==
    MaxOf({0} \cup {j \in 1 .. (k - 1) : ev[j].op = op})

RECURSIVE DelaySum(_, _, _)
\* The microseconds of delay strictly between positions a and b.
DelaySum(ev, a, b) ==
    IF a + 1 >= b THEN 0
    ELSE (IF ev[a + 1].op = "delay" THEN ev[a + 1].data ELSE 0)
         + DelaySum(ev, a + 1, b)

\* ev holds exactly the write cycles expected, in order, and no read; in
\* each cycle the address and the data of the cycle are driven before
\* write-enable goes low, write-enable stays low for at least 1 us and is
\* raised before the next cycle; after the last cycle at least wait
\* microseconds pass and the bus is not driven again.
WriteCycles(ev, expected, wait) ==
    LET lows == Drives(ev, "we", 0)
        highs == Drives(ev, "we", 1)
        sends == SelectSeq(ev, LAMBDA e : e.op = "send")
    IN  /\ Cycles(sends) = expected
        /\ Cardinality(lows) = Len(expected)
        /\ \A k \in 1 .. Len(ev) : ev[k].op # "read"
        /\ \A k \in lows :
              LET n == Cardinality({j \in lows : j <= k})
                  prev == MaxOf({0} \cup {j \in lows : j < k})
                  a == LastBefore(ev, "addr", k)
                  d == LastBefore(ev, "data", k)
                  rises == {m \in highs : m > k}
              IN  /\ a > prev
                  /\ ev[a].addr = expected[n][1]
                  /\ d > prev
                  /\ ev[d].data = expected[n][2]
                  /\ rises # {}
                  /\ DelaySum(ev, k, MinOf(rises)) >= 1
                  /\ \A j \in lows : j > k => j > MinOf(rises)
        /\ highs # {}
        /\ DelaySum(ev, MaxOf(highs), Len(ev) + 1) >= wait
        /\ \A k \in (MaxOf(highs) + 1) .. Len(ev) :
              ev[k].op \in {"delay", "mode"}

\* C19: writeByte(address, data) issues exactly the four write cycles
\* (0x5555,0xAA), (0x2AAA,0x55), (0x5555,0xA0), (address,data) in this
\* order; in each, address and data are driven before write-enable goes
\* low, write-enable is low for at least 1 us and raised before the next
\* cycle; at least 25 us pass after the fourth cycle before it returns.
C19_WriteByteCycles ==
    [][pc = "writeByte"
         => WriteCycles(NewEvents,
                        << <<21845, 170>>, <<10922, 85>>, <<21845, 160>>,
                           <<startAddress + i, sectorData[i + 1]>> >>,
                        25)]_vars

\* The second byte of sector 1 has been programmed: the last write cycle
\* on the bus is (3, 0xBC).
C19_Witness ==
    /\ pc = "readByte"
    /\ i = 0
    /\ startAddress = SectorSize
    /\ sectorData[2] = 188
    /\ LET sends == SelectSeq(hw.log, LAMBDA e : e.op = "send")
       IN  /\ Len(sends) = 6 + 4 * SectorSize
           /\ sends[Len(sends)].addr = startAddress + SectorSize - 1
           /\ sends[Len(sends)].data = sectorData[SectorSize]

\* C20: eraseSector(index) for a valid index issues exactly the six write
\* cycles (0x5555,0xAA), (0x2AAA,0x55), (0x5555,0x80), (0x5555,0xAA),
\* (0x2AAA,0x55), (index*sectorSize,0x30) in this order, no other bus cycle
\* among them, and at least 30 ms pass after the sixth before it returns.
C20_EraseSectorCycles ==
    [][(pc = "programSector" /\ sectorIndex < SST_NUMBER_SECTORS)
         => (/\ pc' = "writeByte"
             /\ WriteCycles(NewEvents,
                            << <<21845, 170>>, <<10922, 85>>, <<21845, 128>>,
                               <<21845, 170>>, <<10922, 85>>,
                               <<sectorIndex * SectorSize, 48>> >>,
                            30 * 1000))]_vars

\* Sector 1 has been erased: six write cycles, the last at its first
\* address, and the sector reads 0xFF where the flash held a pattern.
C20_Witness ==
    /\ pc = "writeByte"
    /\ i = 0
    /\ sectorIndex = 1
    /\ LET sends == SelectSeq(hw.log, LAMBDA e : e.op = "send")
       IN  /\ Len(sends) = 6
           /\ sends[6].addr = SectorSize
           /\ sends[6].data = 48
    /\ hw.flash[SectorSize] = 255
    /\ hw.flash[0] # 255

-----------------------------------------------------------------------------
(* The bus driver called directly: the operations read_write.h declares,   *)
(* one call per step in any bus state.  hw.log holds the bus events of the *)
(* last call and inp the call itself, <<name, argument, argument>>.        *)

DriverAddresses ==
    {0, 1, SST_SECTOR_SIZE, SST_FLASH_SIZE - 1, SST_FLASH_SIZE,
     2 ^ ADDRESS_BUS_LENGTH + 1}

\* Where and what the harness programs.
ProgramAddresses == {1}

DriverData == {65, 188}

DriverIndices == (0 .. SST_NUMBER_SECTORS) \cup {65535}

\* The hardware at the start of a call: the log starts empty and nothing
\* is left of the reads of earlier calls.
AtCall(h) == [h EXCEPT !.log = <<>>, !.glitch = FALSE, !.ret = 0]

\* The return of a driver operation to its caller, or its halt.
driverReturn(call, h) ==
    /\ pc = "driver"
    /\ inp' = <<call>>
    /\ hw' = h
    /\ rd' = <<>>
    /\ IF Halted(h)
       THEN EnterFail(h.halt)
       ELSE /\ tx' = <<>>
            /\ waited' = 0
            /\ UNCHANGED <<pc, errorMessage, leds>>
    /\ UNCHANGED <<arduinoState, sectorIndex, sectorIndexBytes, sectorData,
                   i, startAddress, rx>>

callSetDataPinsIn ==
    driverReturn(<<"setDataPinsIn", 0, 0>>, setDataPinsIn(AtCall(hw)))

callSetDataPinsOut ==
    driverReturn(<<"setDataPinsOut", 0, 0>>, setDataPinsOut(AtCall(hw)))

callReadByte(address, sample) ==
    driverReturn(<<"readByte", address, 0>>,
                 readByte(AtCall(hw), address, sample))

callWriteByte(address, data) ==
    driverReturn(<<"writeByte", address, data>>,
                 writeByte(AtCall(hw), address, data))

callEraseSector(index) ==
    driverReturn(<<"eraseSector", index, 0>>, eraseSector(AtCall(hw), index))

callEraseSectorStartingAt(address) ==
    driverReturn(<<"eraseSectorStartingAt", address, 0>>,
                 eraseSectorStartingAt(AtCall(hw), address))

callEraseChip == driverReturn(<<"eraseChip", 0, 0>>, eraseChip(AtCall(hw)))

InitDriver ==
    /\ arduinoState = WAITING_FOR_COMMAND
    /\ pc = "driver"
    /\ sectorIndex = 0
    /\ sectorIndexBytes = <<>>
    /\ sectorData = [k \in 1 .. SST_SECTOR_SIZE |-> 0]
    /\ i = 0
    /\ startAddress = 0
    /\ errorMessage = <<>>
    /\ leds = setLEDStatus("WORKING")
    /\ hw \in {HardwareAfterSetup(f) : f \in FlashBefore}
    /\ tx = <<>>
    /\ rd = <<>>
    /\ waited = 0
    /\ inp = <<>>
    /\ rx = <<>>
    /\ hostNaks = NoRejects

NextDriver ==
    \/ callSetDataPinsIn /\ UNCHANGED hostNaks
    \/ callSetDataPinsOut /\ UNCHANGED hostNaks
    \/ \E address \in DriverAddresses :
          \E sample \in Samples(hw, address % (2 ^ ADDRESS_BUS_LENGTH)) :
             callReadByte(address, sample) /\ UNCHANGED hostNaks
    \/ \E address \in ProgramAddresses, data \in DriverData :
          callWriteByte(address, data) /\ UNCHANGED hostNaks
    \/ \E index \in DriverIndices : callEraseSector(index) /\ UNCHANGED hostNaks
    \/ \E address \in DriverAddresses : callEraseSectorStartingAt(address) /\ UNCHANGED hostNaks
    \/ callEraseChip /\ UNCHANGED hostNaks
    \/ failSend /\ UNCHANGED hostNaks
    \/ failDelay /\ UNCHANGED hostNaks

SpecDriver == InitDriver /\ [][NextDriver]_vars

\* The last driver call, and whether it has returned to its caller.
LastCall == IF inp = <<>> THEN <<"none", 0, 0>> ELSE inp[Len(inp)]

Returned == pc = "driver" /\ inp # <<>>

\* The write cycles of a chip erase.
EraseChipCycles ==
    <<<<21845, 170>>, <<10922, 85>>, <<21845, 128>>,
      <<21845, 170>>, <<10922, 85>>, <<21845, 16>>>>

\* C21: whenever eraseChip has returned, the bus events of the call are
\* exactly six write cycles, (0x5555,0xAA), (0x2AAA,0x55), (0x5555,0x80),
\* (0x5555,0xAA), (0x2AAA,0x55), (0x5555,0x10) in this order, and the delays
\* after the sixth add up to at least 105 ms; with the data pins in output
\* mode the call does return.
C21_EraseChipCycles ==
    (LastCall[1] = "eraseChip" /\ hw.mode = "OUTPUT") =>
        /\ Returned
        /\ WriteCycles(hw.log, EraseChipCycles, 105 * 1000)

\* eraseChip has returned after six write cycles and the whole flash reads
\* erased.
C21_Witness ==
    /\ Returned
    /\ LastCall[1] = "eraseChip"
    /\ Len(SelectSeq(hw.log, LAMBDA e : e.op = "send")) = 6
    /\ \A a \in DOMAIN hw.flash : hw.flash[a] = 255

\* The positions of the events of one kind in a log.
Positions(ev, op) == {k \in 1 .. Len(ev) : ev[k].op = op}

\* C22: whenever readByte(address) has returned, the bus events of the call
\* are in this order: write-enable and output-enable driven high, at least
\* 1 us of delay, the address bus driven with address mod 2^ADDRESS_BUS_LENGTH,
\* output-enable driven low, at least 1 us of delay, the one sample of the
\* data bus, output-enable driven high; write-enable is never low, the byte
\* returned is the sample and output-enable is high at the return.  With
\* the data pins in input mode the call does return.
C22_ReadByteOrder ==
    (LastCall[1] = "readByte" /\ hw.mode = "INPUT") =>
        /\ Returned
        /\ LET ev == hw.log
               reads == Positions(ev, "read")
               lows == Drives(ev, "oe", 0)
               r == MinOf(reads)
               l == MinOf(lows)
               a == LastBefore(ev, "addr", l)
               w == LastBefore(ev, "we", a)
               o == LastBefore(ev, "oe", a)
           IN  /\ Cardinality(reads) = 1
               /\ Cardinality(lows) = 1
               /\ Cardinality(Positions(ev, "addr")) = 1
               /\ Positions(ev, "send") = {}
               /\ Drives(ev, "we", 0) = {}
               /\ w > 0 /\ ev[w].data = 1
               /\ o > 0 /\ ev[o].data = 1
               /\ DelaySum(ev, MaxOf({w, o}), a) >= 1
               /\ a < l
               /\ ev[a].addr = LastCall[2] % (2 ^ ADDRESS_BUS_LENGTH)
               /\ l < r
               /\ DelaySum(ev, l, r) >= 1
               /\ ev[r].addr = ev[a].addr
               /\ \E up \in Drives(ev, "oe", 1) : up > r
               /\ hw.ret = ev[r].data
               /\ hw.oe = 1
               /\ hw.we = 1

\* readByte has returned a programmed byte read at an address beyond the
\* address lines: the lines carried its low bits.
C22_Witness ==
    /\ Returned
    /\ LastCall[1] = "readByte"
    /\ LastCall[2] >= 2 ^ ADDRESS_BUS_LENGTH
    /\ hw.addr = 1
    /\ hw.ret = hw.flash[1]
    /\ hw.ret # 255
    /\ hw.oe = 1

\* The precondition the last driver call violated, as the message of its
\* DEBUG assertion (<<>>: it violated none).  No driver operation changes
\* the mode of the data pins before its assertions.
ViolatedPrecondition ==
    LET name == LastCall[1]
        arg == LastCall[2]
        notOut == hw.mode # "OUTPUT"
    IN  IF name = "readByte"
        THEN IF hw.mode # "INPUT"
             THEN PinsNotInMessage(NameReadByte) ELSE <<>>
        ELSE IF name = "writeByte"
        THEN IF notOut THEN PinsNotOutMessage(NameWriteByte) ELSE <<>>
        ELSE IF name = "eraseChip"
        THEN IF notOut THEN PinsNotOutMessage(NameEraseChip) ELSE <<>>
        ELSE IF name = "eraseSector"
        THEN IF notOut THEN PinsNotOutMessage(NameEraseSector)
             ELSE IF arg >= SST_NUMBER_SECTORS THEN MsgEraseSectorIndexOob
             ELSE <<>>
        ELSE IF name = "eraseSectorStartingAt"
        THEN IF notOut THEN PinsNotOutMessage(NameEraseSectorStartingAt)
             ELSE IF arg >= SST_FLASH_SIZE THEN MsgEraseAtOob
             ELSE IF arg % SST_SECTOR_SIZE # 0 THEN MsgEraseAtUnaligned
             ELSE <<>>
        ELSE <<>>

\* C23: in the DEBUG build a driver call with a violated precondition
\* (readByte with the data pins not in input mode; writeByte, eraseSector,
\* eraseSectorStartingAt or eraseChip with the data pins not in output mode;
\* eraseSector with index >= N; eraseSectorStartingAt with address >= flash
\* size or not a multiple of the sector size) halts in fail() with the
\* message of that assertion, and the call has issued no bus event at all:
\* no write cycle, no change of write-enable or output-enable, and the chip
\* is as before the call.
C23_PreconditionsHaltBeforeBus ==
    /\ [](ViolatedPrecondition # <<>> =>
             /\ pc \in FailPcs
             /\ errorMessage = ViolatedPrecondition
             /\ hw.log = <<>>)
    /\ [][(pc' \in FailPcs /\ pc = "driver") =>
             /\ ViolatedPrecondition' # <<>>
             /\ hw'.we = hw.we
             /\ hw'.oe = hw.oe
             /\ hw'.flash = hw.flash
             /\ hw'.cmd = hw.cmd
             /\ hw'.log = <<>>]_vars

\* eraseSectorStartingAt has halted on an address inside the flash that is
\* not the start of a sector, with the data pins in output mode.
C23_Witness ==
    /\ pc \in FailPcs
    /\ LastCall[1] = "eraseSectorStartingAt"
    /\ LastCall[2] < SST_FLASH_SIZE
    /\ hw.mode = "OUTPUT"
    /\ errorMessage = MsgEraseAtUnaligned
    /\ hw.log = <<>>

-----------------------------------------------------------------------------
(* Sector programming in both builds: with DEBUG defined (globals.h) and   *)
(* with the definition removed.                                            *)

InitBuilds ==
    /\ arduinoState = BEGIN_PROGRAM_SECTOR
    /\ pc = "run"
    /\ sectorIndex \in StackWords
    /\ sectorIndexBytes = <<>>
    /\ sectorData \in {[k \in 1 .. SST_SECTOR_SIZE |-> g] : g \in StackBytes}
    /\ i = 0
    /\ startAddress = 0
    /\ errorMessage = <<>>
    /\ leds = setLEDStatus("WAITING_FOR_COMMUNICATION")
    /\ hw \in {[HardwareAfterSetup(f) EXCEPT !.debug = d] :
                  f \in FlashBefore, d \in BOOLEAN}
    /\ tx = <<>>
    /\ rd = <<>>
    /\ waited = 0
    /\ inp = <<>>
    /\ rx = <<>>
    /\ hostNaks = NoRejects

SpecBuilds == InitBuilds /\ [][Next]_vars

\* The hardware as the build with, and the build without, DEBUG has it.
Strict(h) == [h EXCEPT !.debug = TRUE]

Loose(h) == [h EXCEPT !.debug = FALSE]

\* Two hardware records differ in the build flag at most.
SameBus(a, b) == Loose(a) = Loose(b)

\* The bus operations of the commit step the thread of control is at give
\* the same pins, chip, log, returned byte and halt in both builds.
BusStepsAgree ==
    LET address == ByteAddressOf(startAddress, i)
    IN  /\ pc = "programSector" =>
              SameBus(eraseSector(setDataPinsOut(Strict(hw)), sectorIndex),
                      eraseSector(setDataPinsOut(Loose(hw)), sectorIndex))
        /\ pc = "writeByte" =>
              LET s == writeByte(Strict(hw), address, sectorData[i + 1])
                  l == writeByte(Loose(hw), address, sectorData[i + 1])
              IN  /\ SameBus(s, l)
                  /\ SameBus(setDataPinsIn(s), setDataPinsIn(l))
        /\ pc = "readByte" =>
              \A sample \in Samples(hw, address % (2 ^ ADDRESS_BUS_LENGTH))
                              \cup {0, 255} :
                 SameBus(readByte(Strict(hw), address, sample),
                         readByte(Loose(hw), address, sample))

\* C24: in sector programming the build with the DEBUG checks and the build
\* without them behave alike: no DEBUG assertion ever fires (the only halt is
\* the failed verification), and at every commit step the bus operations of
\* the two builds produce the same bus events, chip contents, returned byte
\* and outcome from the same state, so that serial output, protocol states
\* and bus cycles coincide for every host input.
C24_BuildsAgree ==
    /\ pc \in FailPcs => errorMessage = MsgVerifyFailed
    /\ hw.halt = <<>>
    /\ BusStepsAgree

\* The build without DEBUG has committed a sector and acknowledged it.
C24_Witness ==
    /\ ~hw.debug
    /\ pc = "run"
    /\ arduinoState = WAITING_FOR_COMMAND
    /\ tx = sendACK
    /\ Positions(hw.log, "send") # {}
    /\ Positions(hw.log, "read") # {}

\* Every byte of the sector reads 0xFF: readByte, after setDataPinsIn, from
\* a chip that drives the byte it holds.
SectorReadsErased(h, index) ==
    \A offset \in 0 .. (SST_SECTOR_SIZE - 1) :
       LET address == index * SST_SECTOR_SIZE + offset
           r == readByte(setDataPinsIn(AtCall(h)), address,
                         ChipData(h, address))
       IN  ~Halted(r) /\ r.ret = 255

\* C25: eraseSector(i) with a valid index i and the data pins in output mode
\* returns, whatever the flash held, and every byte of sector i then reads
\* 0xFF; a second eraseSector(i) right after it returns too, every byte of
\* sector i reads 0xFF again, and the flash is as after the first.
C25_EraseIdempotent ==
    (LastCall[1] = "eraseSector" /\ LastCall[2] < SST_NUMBER_SECTORS
        /\ hw.mode = "OUTPUT") =>
        /\ Returned
        /\ SectorReadsErased(hw, LastCall[2])
        /\ LET again == eraseSector(AtCall(hw), LastCall[2])
           IN  /\ ~Halted(again)
               /\ SectorReadsErased(again, LastCall[2])
               /\ again.flash = hw.flash

\* eraseSector(1) has returned over a flash that still holds programmed
\* bytes in sector 0.
C25_Witness ==
    /\ Returned
    /\ LastCall = <<"eraseSector", 1, 0>>
    /\ hw.flash[0] # 255
    /\ hw.flash[SST_SECTOR_SIZE] = 255
    /\ Len(SelectSeq(hw.log, LAMBDA e : e.op = "send")) = 6

-----------------------------------------------------------------------------
(* The addresses of the commit step on the configured chip: programSector  *)
(* with the sizes of sst_constants.h, for a validated sector index.  The  *)
(* data is left out; inp holds the driver call and its address argument.  *)

\* The offsets of the two loops of programSector that are followed.
ConfiguredOffsets ==
    {0, 1, 255, 256, 2047, 2048, CONFIGURED_SECTOR_SIZE - 2,
     CONFIGURED_SECTOR_SIZE - 1}

\* programSector, lines 105-108: the start address, and the address
\* eraseSector passes to eraseSectorStartingAt.
addressErase ==
    /\ pc = "programSector"
    /\ startAddress' = StartAddressOf(sectorIndex, CONFIGURED_SECTOR_SIZE)
    /\ LET address == EraseAddressOf(sectorIndex, CONFIGURED_SECTOR_SIZE)
       IN  /\ inp' = <<<<"eraseSectorStartingAt", address, 0>>>>
           /\ hw' = setAddressBus(AtCall(hw), address)
    /\ i' = 0
    /\ pc' = "writeByte"
    /\ UNCHANGED <<arduinoState, sectorIndex, sectorIndexBytes, sectorData,
                   errorMessage, leds, tx, rd, waited, rx>>

\* programSector, lines 109-111: the writeByte of one index of the loop.
addressWrite(index) ==
    /\ pc = "writeByte"
    /\ index >= i
    /\ LET address == ByteAddressOf(startAddress, index)
       IN  /\ inp' = <<<<"writeByte", address, 0>>>>
           /\ hw' = setAddressBus(AtCall(hw), address)
    /\ IF index + 1 < CONFIGURED_SECTOR_SIZE
       THEN i' = index + 1 /\ UNCHANGED pc
       ELSE i' = 0 /\ pc' = "readByte"
    /\ UNCHANGED <<arduinoState, sectorIndex, sectorIndexBytes, sectorData,
                   startAddress, errorMessage, leds, tx, rd, waited, rx>>

\* programSector, lines 114-115: the readByte of one index of the loop.
addressRead(index) ==
    /\ pc = "readByte"
    /\ index >= i
    /\ LET address == ByteAddressOf(startAddress, index)
       IN  /\ inp' = <<<<"readByte", address, 0>>>>
           /\ hw' = setAddressBus(AtCall(hw), address)
    /\ IF index + 1 < CONFIGURED_SECTOR_SIZE
       THEN i' = index + 1 /\ UNCHANGED pc
       ELSE i' = 0 /\ pc' = "run"
    /\ UNCHANGED <<arduinoState, sectorIndex, sectorIndexBytes, sectorData,
                   startAddress, errorMessage, leds, tx, rd, waited, rx>>

\* The call of programSector: the index has passed the test
\* sectorIndex >= SST_NUMBER_SECTORS of getAndValidateSectorIndex.
InitAddress ==
    /\ arduinoState = PROGRAM_SECTOR_GOT_DATA
    /\ pc = "programSector"
    /\ sectorIndex \in 0 .. (CONFIGURED_NUMBER_SECTORS - 1)
    /\ sectorIndexBytes = <<>>
    /\ sectorData = <<>>
    /\ i = 0
    /\ startAddress = 0
    /\ errorMessage = <<>>
    /\ leds = setLEDStatus("WORKING")
    /\ hw = HardwareAfterSetup(<<>>)
    /\ tx = <<>>
    /\ rd = <<>>
    /\ waited = 0
    /\ inp = <<>>
    /\ rx = <<>>
    /\ hostNaks = NoRejects

NextAddress ==
    \/ addressErase /\ UNCHANGED hostNaks
    \/ \E index \in ConfiguredOffsets : addressWrite(index) /\ UNCHANGED hostNaks
    \/ \E index \in ConfiguredOffsets : addressRead(index) /\ UNCHANGED hostNaks

SpecAddress == InitAddress /\ [][NextAddress]_vars

\* C26: every address programSector passes to the driver on the configured
\* chip, for a validated index: the start address is index * 4096 exactly,
\* the address passed to eraseSectorStartingAt is the start address, the
\* address passed to writeByte or readByte is start + offset with
\* 0 <= offset < 4096, each is the exact value (no wrap or truncation at the
\* width of the code's types), is below the flash size 262144 and is what
\* the ADDRESS_BUS_LENGTH address lines carry.
C26_CommitAddressesInRange ==
    inp # <<>> =>
        LET address == LastCall[2]
            start == sectorIndex * CONFIGURED_SECTOR_SIZE
            offset == address - start
        IN  /\ startAddress = start
            /\ LastCall[1] = "eraseSectorStartingAt" => offset = 0
            /\ offset >= 0
            /\ offset < CONFIGURED_SECTOR_SIZE
            /\ LastCall[1] # "eraseSectorStartingAt" =>
                  offset \in ConfiguredOffsets
            /\ address < CONFIGURED_FLASH_SIZE
            /\ address < 2 ^ ADDRESS_BUS_LENGTH
            /\ hw.addr = address

\* The last byte of the last sector has been written: the highest address
\* of the flash was on the address lines.
C26_Witness ==
    /\ LastCall[1] = "writeByte"
    /\ sectorIndex = CONFIGURED_NUMBER_SECTORS - 1
    /\ LastCall[2] = CONFIGURED_FLASH_SIZE - 1
    /\ hw.addr = CONFIGURED_FLASH_SIZE - 1
    /\ pc = "readByte"

-----------------------------------------------------------------------------
(* The status LEDs: setLEDStatus called from any state of the four         *)
(* outputs; inp holds the calls made.                                      *)

MaxCalls == 4

callSetLEDStatus(status) ==
    /\ pc = "leds"
    /\ Len(inp) < MaxCalls
    /\ leds' = setLEDStatus(status)
    /\ inp' = Append(inp, <<"setLEDStatus", status, 0>>)
    /\ UNCHANGED <<arduinoState, pc, sectorIndex, sectorIndexBytes,
                   sectorData, i, startAddress, errorMessage, hw, tx, rd,
                   waited, rx>>

InitLeds ==
    /\ arduinoState = WAITING_FOR_COMMAND
    /\ pc = "leds"
    /\ sectorIndex = 0
    /\ sectorIndexBytes = <<>>
    /\ sectorData = <<>>
    /\ i = 0
    /\ startAddress = 0
    /\ errorMessage = <<>>
    /\ leds \in [LedPins -> {0, 1}]
    /\ hw = HardwareAfterSetup(<<>>)
    /\ tx = <<>>
    /\ rd = <<>>
    /\ waited = 0
    /\ inp = <<>>
    /\ rx = <<>>
    /\ hostNaks = NoRejects

NextLeds == \E status \in LEDStatus : callSetLEDStatus(status) /\ UNCHANGED hostNaks

SpecLeds == InitLeds /\ [][NextLeds]_vars

\* The LED outputs that are HIGH.
LedsHigh == {l \in LedPins : leds[l] = 1}

\* C27: after setLEDStatus(s) has returned, for each of the four statuses
\* and whatever the four outputs were before, exactly one LED output is
\* HIGH: WAITING_FOR_COMMUNICATION_LED for WAITING_FOR_COMMUNICATION,
\* WORKING_LED for WORKING, FINISHED_LED for FINISHED, ERROR_LED for ERROR.
C27_ExactlyOneLed ==
    LastCall[1] = "setLEDStatus" =>
        LET s == LastCall[2]
        IN  /\ Cardinality(LedsHigh) = 1
            /\ s = "WAITING_FOR_COMMUNICATION" =>
                  LedsHigh = {"WAITING_FOR_COMMUNICATION_LED"}
            /\ s = "WORKING" => LedsHigh = {"WORKING_LED"}
            /\ s = "FINISHED" => LedsHigh = {"FINISHED_LED"}
            /\ s = "ERROR" => LedsHigh = {"ERROR_LED"}

\* setLEDStatus(FINISHED) has returned right after setLEDStatus(ERROR):
\* FINISHED_LED is HIGH and ERROR_LED is LOW again.
C27_Witness ==
    /\ Len(inp) >= 2
    /\ LastCall[2] = "FINISHED"
    /\ inp[Len(inp) - 1][2] = "ERROR"
    /\ leds["FINISHED_LED"] = 1
    /\ leds["ERROR_LED"] = 0

\* C28: in the handshake, once a byte other than 0x06 has been answered
\* with a NAK, the bytes in the receive buffer are consumed one by one
\* without being interpreted: each such step reads the byte at the head of
\* the buffer, sends nothing (no further NAK) and stays in the discarding
\* loop, also when the byte is 0x06, so the handshake does not return; the
\* loop ends only on an empty buffer, and the buffer is a queue, so every
\* byte that was in it at the NAK is discarded before that.  The
\* discarding loop is entered only by the step that sends the NAK.
C28_BufferDiscardedAfterNak ==
    /\ [][(pc = "connect_clear" /\ rx # <<>>) =>
             \/ /\ rx' = Tail(rx)
                /\ rd' = <<Head(rx)>>
                /\ tx' = <<>>
                /\ pc' = "connect_clear"
             \/ /\ \E b \in HostBytes : rx' = Append(rx, b)
                /\ UNCHANGED <<pc, tx, rd>>]_vars
    /\ [][(pc = "connect_clear" /\ rx = <<>>) =>
             \/ /\ rx' = rx
                /\ pc' = "connect_poll"
                /\ rd' = <<>>
                /\ tx' = <<>>
             \/ /\ \E b \in HostBytes : rx' = Append(rx, b)
                /\ UNCHANGED <<pc, tx, rd>>]_vars
    /\ [][(pc' = "connect_clear" /\ pc # "connect_clear") =>
             /\ pc = "connect_poll"
             /\ rx # <<>>
             /\ Head(rx) # 6
             /\ rd' = <<Head(rx)>>
             /\ rx' = Tail(rx)
             /\ IsNakMessage(tx')]_vars

\* An ACK that was buffered behind a stray byte has just been discarded:
\* the handshake is still in its discarding loop, not connected.
C28_Witness ==
    /\ pc = "connect_clear"
    /\ rd = <<6>>
    /\ tx = <<>>
    /\ rx = <<>>

\* t occurs in s.
Contains(s, t) ==
    \E k \in 0 .. (Len(s) - Len(t)) : SubSeq(s, k + 1, k + Len(t)) = t

\* C29: for the two index bytes received, b0 first and b1 second, the index
\* stored and compared against N is b0 + 256 * b1, a value of 0..65535: on
\* the configured chip it is accepted exactly when it is below 64, every
\* input with b1 # 0 is rejected, and the NAK names the value b0 + 256 * b1
\* in decimal.
C29_LittleEndianIndex ==
    IndexAnswered =>
        LET b0 == inp[1][2]
            b1 == inp[2][2]
            value == b0 + 256 * b1
        IN  /\ sectorIndex = value
            /\ sectorIndex \in 0 .. 65535
            /\ value < CONFIGURED_NUMBER_SECTORS => IndexAcceptedAnswer
            /\ value >= CONFIGURED_NUMBER_SECTORS =>
                  /\ IndexRejectedAnswer
                  /\ Contains(tx, TextSectorIndex \o DecimalString(value)
                                  \o TextTooLarge)
            /\ b1 # 0 => IndexRejectedAnswer

\* The bytes 0x01 0xFF (index 65281) have been rejected; read high byte
\* first they would be index 511, and the low byte alone index 1.
C29_Witness ==
    /\ IndexAnswered
    /\ inp[1][2] = 1
    /\ inp[2][2] = 255
    /\ sectorIndex = 65281
    /\ IndexRejectedAnswer

\* The mode of the data pins after the first k events of a sequence of bus
\* events that begins in a given mode, and the level of output-enable after
\* them.
ModeAfter(ev, k, mode) ==
    LET m == LastBefore(ev, "mode", k + 1)
    IN  IF m = 0 THEN mode
        ELSE IF ev[m].data = 1 THEN "OUTPUT" ELSE "INPUT"

OutputEnableAfter(ev, k, oe) ==
    LET o == LastBefore(ev, "oe", k + 1)
    IN  IF o = 0 THEN oe ELSE ev[o].data

\* The bus events of a step, which begins with the data pins in a mode and
\* output-enable at a level: every write cycle and every drive of the data
\* bus finds the pins in output mode, every sample finds them in input
\* mode, and output-enable is never low while the pins are outputs.
DirectionKept(ev, mode, oe) ==
    \A k \in 1 .. Len(ev) :
       LET m == ModeAfter(ev, k, mode)
       IN  /\ ev[k].op \in {"send", "data"} => m = "OUTPUT"
           /\ ev[k].op = "read" => m = "INPUT"
           /\ ~(OutputEnableAfter(ev, k, oe) = 0 /\ m = "OUTPUT")

\* C30: throughout the commit step, in the build with the DEBUG checks and
\* in the build without them: every write cycle of the erase and program
\* sequences is issued, and the data bus driven, with the data pins in
\* output mode; every sample of a verifying readByte is taken with the data
\* pins in input mode; at no point within a step or between steps is
\* output-enable low while the data pins are outputs; the pins change mode
\* only by an event of the log, they are outputs while the thread of
\* control is in the write loop and inputs while it is in the read loop,
\* and no direction assertion fires.
C30_BusDirection ==
    /\ [][/\ DirectionKept(NewEvents, hw.mode, hw.oe)
          /\ hw'.mode = ModeAfter(NewEvents, Len(NewEvents), hw.mode)
          /\ hw'.oe = OutputEnableAfter(NewEvents, Len(NewEvents), hw.oe)]_vars
    /\ [](/\ pc = "writeByte" => hw.mode = "OUTPUT"
          /\ pc = "readByte" => hw.mode = "INPUT"
          /\ hw.halt = <<>>
          /\ ~(hw.oe = 0 /\ hw.mode = "OUTPUT"))

\* A sector has been erased, programmed and read back: the log holds write
\* cycles, then the change to input mode, then reads.
C30_Witness ==
    /\ pc = "run"
    /\ arduinoState = WAITING_FOR_COMMAND
    /\ Cardinality(Positions(hw.log, "mode")) = 2
    /\ Cardinality(Positions(hw.log, "read")) = SST_SECTOR_SIZE
    /\ MaxOf(Positions(hw.log, "send")) < MinOf(Positions(hw.log, "read"))
    /\ hw.mode = "INPUT"

\* The level of a control line ("we" or "oe") after the first k events of
\* a sequence of bus events that begins with the line at a level.
LevelAfter(ev, line, k, level) ==
    LET p == LastBefore(ev, line, k + 1)
    IN  IF p = 0 THEN level ELSE ev[p].data

\* C31: from setupControlPins on, through any sequence of calls of readByte,
\* writeByte, eraseSector, eraseSectorStartingAt and eraseChip: at no point
\* of the bus events of a call, which begins with both control lines high,
\* are write-enable and output-enable low together, and both are high when
\* the call returns (and when it halts on an assertion instead).
C31_ControlLinesExclusive ==
    /\ \A k \in 1 .. Len(hw.log) :
          ~(/\ LevelAfter(hw.log, "we", k, 1) = 0
            /\ LevelAfter(hw.log, "oe", k, 1) = 0)
    /\ hw.we = LevelAfter(hw.log, "we", Len(hw.log), 1)
    /\ hw.oe = LevelAfter(hw.log, "oe", Len(hw.log), 1)
    /\ hw.we = 1
    /\ hw.oe = 1

\* readByte has returned right after output-enable was low for the sample,
\* and a write had pulsed write-enable before: the flash holds a programmed
\* byte at the address written.
C31_Witness ==
    /\ Returned
    /\ LastCall[1] = "readByte"
    /\ Drives(hw.log, "oe", 0) # {}
    /\ hw.flash[1] \in {65, 188, 0}
    /\ hw.we = 1
    /\ hw.oe = 1

\* The commit step has started or is in progress.
InCommit == pc \in {"programSector", "writeByte", "readByte"}

\* C32: for an invocation entered in any of the four sector states,
\* whenever the commit step starts or is in progress, the sector index it
\* uses was received in this invocation, validated (< N) and acknowledged
\* by the host, and the buffer it programs is the payload received in this
\* invocation whose echo the host acknowledged: no value from before the
\* invocation and no unset value reaches the flash.
C32_CommitUsesReceivedValues ==
    InCommit =>
        /\ HostAckedIndex
        /\ sectorIndex = HostIndex
        /\ sectorIndex < SST_NUMBER_SECTORS
        /\ HostAckedData
        /\ sectorData = HostPayload

-----------------------------------------------------------------------------
(* A transaction with a host that records the rounds it rejects: the host  *)
(* answers NAK to an echo any number of times.                             *)

\* The bytes of the round the host is answering: the two index bytes at
\* PROGRAM_SECTOR_GOT_INDEX, the payload at PROGRAM_SECTOR_GOT_DATA.
RoundBytes ==
    IF arduinoState = PROGRAM_SECTOR_GOT_INDEX
    THEN <<inp[1][2], inp[2][2]>>
    ELSE [k \in 1 .. SectorSize |-> inp[3 + k][2]]

\* The host's record after it answers b to the echo of the round.
hostAnswers(b) ==
    hostNaks' = IF b = NAK
                THEN [hostNaks EXCEPT ![arduinoState] = RoundBytes]
                ELSE hostNaks

\* Payload bytes of this host: the value of NAK and another one.
RetryPayloadBytes == {NAK, 65}

NextRetry ==
    \/ \E b \in HostBytes : getAndValidateSectorIndex(b) /\ UNCHANGED hostNaks
    \/ \E b \in HostBytes : confirmSectorIndex(b) /\ hostAnswers(b)
    \/ \E b \in RetryPayloadBytes : receiveSectorData(b) /\ UNCHANGED hostNaks
    \/ \E b \in HostBytes : confirmSectorData(b) /\ hostAnswers(b)
    \/ programSectorErase /\ UNCHANGED hostNaks
    \/ programSectorWrite /\ UNCHANGED hostNaks
    \/ \E sample \in Samples(hw, (startAddress + i) % (2 ^ ADDRESS_BUS_LENGTH)) :
          programSectorVerify(sample) /\ UNCHANGED hostNaks
    \/ processSerialProgramSectorReturn /\ UNCHANGED hostNaks
    \/ failSend /\ UNCHANGED hostNaks
    \/ failDelay /\ UNCHANGED hostNaks

SpecRetry == Init /\ [][NextRetry]_vars

\* C33: after any number of NAK answers the commit uses the latest
\* confirmed values.  While the payload is awaited, echoed or committed the
\* index in use is the one of the standing index round, which the host
\* ACKed (a NAK at PROGRAM_SECTOR_GOT_DATA leaves it and the firmware waits
\* for payload byte 0 again); once the payload is echoed the buffer is, byte
\* for byte, the payload received last; and after the final ACK the sector
\* of that index holds exactly that payload.
C33_CommitUsesLatestConfirmed ==
    /\ (InCommit \/ (pc = "run" /\ arduinoState \in
                        {PROGRAM_SECTOR_INDEX_CONFIRMED, PROGRAM_SECTOR_GOT_DATA}))
          => /\ HostAckedIndex
             /\ sectorIndex = HostIndex
    /\ (pc = "run" /\ arduinoState = PROGRAM_SECTOR_INDEX_CONFIRMED)
          => /\ Len(inp) = 3 + i
             /\ \A k \in 1 .. i : sectorData[k] = inp[3 + k][2]
    /\ (InCommit \/ (pc = "run" /\ arduinoState = PROGRAM_SECTOR_GOT_DATA))
          => /\ Len(inp) >= 3 + SectorSize
             /\ \A k \in 1 .. SectorSize : sectorData[k] = inp[3 + k][2]
    /\ (pc = "run" /\ tx = sendACK /\ arduinoState = WAITING_FOR_COMMAND)
          => \A k \in 1 .. SectorSize :
                hw.flash[HostIndex * SectorSize + k - 1] = inp[3 + k][2]

\* The final ACK has been sent after the host rejected an index and, later,
\* a payload: the index programmed is not the rejected one and no byte of
\* the rejected payload is equal to the byte programmed in its place.
C33_Witness ==
    /\ pc = "run"
    /\ tx = sendACK
    /\ arduinoState = WAITING_FOR_COMMAND
    /\ hostNaks[PROGRAM_SECTOR_GOT_INDEX] # <<>>
    /\ hostNaks[PROGRAM_SECTOR_GOT_INDEX] # <<inp[1][2], inp[2][2]>>
    /\ hostNaks[PROGRAM_SECTOR_GOT_DATA] # <<>>
    /\ \A k \in 1 .. SectorSize :
          /\ hostNaks[PROGRAM_SECTOR_GOT_DATA][k] # sectorData[k]
          /\ hw.flash[HostIndex * SectorSize + k - 1] = sectorData[k]

-----------------------------------------------------------------------------
(* The sectors a transaction does not name.                                *)

\* The addresses of sector index.
SectorAddresses(index) ==
    (index * SectorSize) .. ((index + 1) * SectorSize - 1)

\* The addresses of the write cycles that follow the cycles of an unlock
\* sequence and carry a data byte of kind data (any byte when data is {}).
Targets(sends, unlock, data) ==
    {sends[k][1] : k \in {n \in (Len(unlock) + 1) .. Len(sends) :
                            /\ SubSeq(sends, n - Len(unlock), n - 1) = unlock
                            /\ data = {} \/ sends[n][2] \in data}}

\* C34: programming sector i leaves every other sector unchanged.  Of the
\* write cycles of the commit, each one that completes the erase sequence
\* (0x30 after the five unlock cycles) is at address i * sectorSize, each
\* one that completes a program sequence is at an address of sector i, and
\* no step of the transaction changes the chip's byte at an address outside
\* sector i.
C34_OtherSectorsUnchanged ==
    /\ [](hw.log # <<>> =>
            LET sends == Cycles(Events("send"))
            IN  /\ HostAckedIndex
                /\ Targets(sends, UnlockErase, {48}) \subseteq
                      {HostIndex * SectorSize}
                /\ Targets(sends, UnlockProgram, {}) \subseteq
                      SectorAddresses(HostIndex))
    /\ [][\A a \in DOMAIN hw.flash :
             hw'.flash[a] # hw.flash[a]
             => /\ HostAckedIndex
                /\ a \in SectorAddresses(HostIndex)]_vars

\* Sector 1 of a chip that held a pattern has been programmed and
\* acknowledged: it holds the payload and every other address the pattern.
C34_Witness ==
    /\ pc = "run"
    /\ tx = sendACK
    /\ arduinoState = WAITING_FOR_COMMAND
    /\ HostIndex = 1
    /\ \A a \in DOMAIN hw.flash :
          IF a \in SectorAddresses(1)
          THEN /\ hw.flash[a] = HostPayload[a - SectorSize + 1]
               /\ hw.flash[a] # (a * 37 + 64) % 256
          ELSE hw.flash[a] = (a * 37 + 64) % 256

-----------------------------------------------------------------------------
(* A transaction that is let to finish: the host sends every byte that is  *)
(* waited for, names a valid sector, answers each echo with ACK or NAK and *)
(* stops answering NAK at some point; the chip returns what it holds.      *)

\* The bytes that continue the index bytes read so far to a valid index.
ValidIndexBytes ==
    {b \in HostBytes :
        \E index \in 0 .. (SST_NUMBER_SECTORS - 1) :
           LET k == Len(sectorIndexBytes)
           IN  /\ b = (index \div (256 ^ k)) % 256
               /\ \A n \in 1 .. k :
                     sectorIndexBytes[n] = (index \div (256 ^ (n - 1))) % 256}

hostSendsIndex ==
    \E b \in ValidIndexBytes :
       getAndValidateSectorIndex(b) /\ UNCHANGED hostNaks

hostAnswersIndex ==
    \E b \in {ACK, NAK} : confirmSectorIndex(b) /\ hostAnswers(b)

hostSendsPayload ==
    \E b \in RetryPayloadBytes : receiveSectorData(b) /\ UNCHANGED hostNaks

hostAnswersPayload ==
    \E b \in {ACK, NAK} : confirmSectorData(b) /\ hostAnswers(b)

\* The verification reads what the chip holds at the address.
chipReturnsByte ==
    programSectorVerify(ChipData(hw, (startAddress + i)
                                        % (2 ^ ADDRESS_BUS_LENGTH)))
       /\ UNCHANGED hostNaks

NextFinishing ==
    \/ hostSendsIndex
    \/ hostAnswersIndex
    \/ hostSendsPayload
    \/ hostAnswersPayload
    \/ programSectorErase /\ UNCHANGED hostNaks
    \/ programSectorWrite /\ UNCHANGED hostNaks
    \/ chipReturnsByte
    \/ processSerialProgramSectorReturn /\ UNCHANGED hostNaks

\* The host answers NAK to an echo.
HostNak == \E s \in ConfirmStates : ConfirmRead(s, NAK)

\* The steps of programSector are taken as long as one is to be taken:
\* weak fairness of the commit, whose steps are enabled exactly in InCommit,
\* written with that state predicate.
CommitRuns == []<>(~InCommit) \/ []<><<InCommit>>_vars

\* Every byte waited for comes and ends the blocking read, every timed wait
\* and every call ends, and the NAK answers are finitely many.
SpecFinishing ==
    /\ Init
    /\ [][NextFinishing]_vars
    /\ WF_vars(hostSendsIndex)
    /\ WF_vars(hostAnswersIndex)
    /\ WF_vars(hostSendsPayload)
    /\ WF_vars(hostAnswersPayload)
    /\ WF_vars(processSerialProgramSectorReturn /\ UNCHANGED hostNaks)
    /\ CommitRuns
    /\ <>[][~HostNak]_vars

\* The firmware waits for a byte of the transaction.
AwaitsByte == pc = "run" /\ arduinoState \in SectorStates

\* C35: a transaction started in BEGIN_PROGRAM_SECTOR with such a host and
\* chip comes to the final ACK in state WAITING_FOR_COMMAND.  The retries
\* have no bound: wherever an echo is to be answered a NAK is taken, it
\* leaves the firmware waiting for a byte in one of the four sector states
\* and the bus as it is, and while the firmware waits in a sector state the
\* bus has seen no event.
C35_TransactionFinishes ==
    /\ <>(pc = "run" /\ tx = sendACK /\ arduinoState = WAITING_FOR_COMMAND)
    /\ []((pc = "run" /\ arduinoState \in ConfirmStates) => ENABLED HostNak)
    /\ [][HostNak => (AwaitsByte' /\ hw' = hw)]_vars
    /\ [](AwaitsByte => hw.log = <<>>)

\* The function has returned after the final ACK of a transaction in which
\* the host had answered NAK to an index and to a payload.
C35_Witness ==
    /\ pc = "returned"
    /\ arduinoState = WAITING_FOR_COMMAND
    /\ hostNaks[PROGRAM_SECTOR_GOT_INDEX] # <<>>
    /\ hostNaks[PROGRAM_SECTOR_GOT_DATA] # <<>>
    /\ Len(Events("read")) = SectorSize
    /\ \A k \in 1 .. SectorSize :
          hw.flash[HostIndex * SectorSize + k - 1] = HostPayload[k]

====
